---- MODULE Spec2Model ----
(***************************************************************************)
(* Model of the gmysql client driver: packet framing over a byte           *)
(* transport, the connection-phase state machine of Open, the command      *)
(* phase (Exec, Query, Prepare, statements, row sets) and Close.           *)
(*                                                                         *)
(* The driver is single-threaded and blocking, so every API call is one    *)
(* atomic action; Open, which talks to the server in several rounds, is    *)
(* split at its round trips and sequenced by conn.pc.  The code of one     *)
(* call is a composition of operators, one per Go function, that take the  *)
(* "world" w = [c |-> Conn fields, n |-> transport, e |-> what the         *)
(* environment does during this call] and return the new world together    *)
(* with the function's results.                                            *)
(***************************************************************************)
EXTENDS Integers, Sequences, FiniteSets, TLC

(***************************************************************************)
(* Bounds of the model.                                                    *)
(***************************************************************************)
\* rows the server puts in one result set: 0..MaxRows
MaxRows == 2
\* columns of a result set: 1..MaxCols
MaxCols == 1
\* unread packets on the transport at which the callers stop issuing commands
MaxPending == 3
\* charsets listed in the DSN parameter charset=a,b,...: 0..MaxCharsets
MaxCharsets == 2
\* API calls the caller makes on the connection Open returned
MaxCalls == 4
\* API calls the caller who passes arguments makes
MaxArgCalls == 3
\* packets written on the framing pair
MaxFrameCalls == 2

\* columns of the widest binary row
MaxBitmapCols == 7
\* calls the caller makes after Next has reported the end of the rows
MaxLiveCalls == 3

(***************************************************************************)
(* Program constants.                                                      *)
(***************************************************************************)
\* uint8 sequence numbers wrap at 256
SeqMod == 256
\* the frame limit 2^24-1 and initial maxPacketAllowed
maxPacketSize == 16777215
\* server protocol versions below 10 are refused
minProtocolVersion == 10

\* payload length of a command packet: the command byte plus its argument
LenQuit == 1
LenStmtClose == 5
LenExecute == 10
\* the SSL request: client flags, max packet size, charset, filler
LenSSLRequest == 32
\* the handshake response for a one-byte user, a two-byte database name and
\* a 20-byte scramble
LenAuth == 80
\* the old-password scramble is 8 bytes, plus the trailing 0
LenOldAuth == 9
\* a one-byte password plus the trailing 0
LenClearAuth == 2
\* "SELECT @@max_allowed_packet", "SET NAMES x", "SET k=v"
LenSelectMaxAP == 27
LenSetNames == 11
LenSetVar == 7
\* lengths of the query texts the callers of the model use
QueryLens == {8}
\* values the server may report for @@max_allowed_packet; 0 stands for a
\* text stringToInt turns into 0
MaxAPValues == {0, 4, 16777216}

(***************************************************************************)
(* Bind(r, K) is K applied to r: the result r of a call is computed once   *)
(* and handed to the code K that follows the call.                         *)
(***************************************************************************)
Bind(r, K(_)) == K(r)

(***************************************************************************)
(* Errors.  "nil" is no error; "panic" is a Go run-time panic (nil         *)
(* dereference, slice out of range); "blocked" is a read on a transport    *)
(* on which the server has nothing more to send; "diverges" is a loop      *)
(* that repeats a state it has been in.                                    *)
(***************************************************************************)
Fatal == {"panic", "blocked", "diverges"}

(***************************************************************************)
(* Packets on the wire.  A packet the server sent is a record with k, what *)
(* the payload is, and seq, the sequence byte of its header.  "junk" is    *)
(* what is left on the transport after a header whose payload was not      *)
(* consumed.                                                               *)
(***************************************************************************)
Pkt(k, seq) == [k |-> k, seq |-> seq]

\* first payload byte is 0x00 (iOK)
IsOK(p) == p.k \in {"ok", "okw", "prepOK", "brow"}
\* first payload byte is 0xff (iERR)
IsERR(p) == p.k = "err"
\* first payload byte is 0xfe (iEOF)
IsEOFByte(p) == p.k \in {"eof", "eof1", "authSwitch", "rowFE"}

\* length-5 EOF packet, the terminator of column definitions and of rows
IsEOFPkt(p) == p.k = "eof"
NoPkt == Pkt("none", 0)

\* the affected-rows and insert-id values the OK packets of the server
\* carry, and an OK packet ("ok": warning count 0, "okw": above 0) with them
OKValues == {[ar |-> 0, id |-> 0], [ar |-> 2, id |-> 5]}
OKPkt(k, v) == [k |-> k, ar |-> v.ar, id |-> v.id, status |-> {}]
OKZero == OKPkt("ok", [ar |-> 0, id |-> 0])
OKWarn == OKPkt("okw", [ar |-> 2, id |-> 5])

\* Result: what Exec hands back; the zero Result goes with an error
Result(ar, id) == [affectedRows |-> ar, insertID |-> id]
NoResult == Result(0, 0)

(***************************************************************************)
(* What the environment does during one call, w.e:                         *)
(*   wcredit  transport writes that succeed before one fails (-1: none     *)
(*            fails)                                                       *)
(*   werr     what a failing write is: "ioError" (Write returns an error)  *)
(*            or "ErrMalformPkt" (Write returns fewer bytes, no error)     *)
(*   resp     the answers of the server, one per packet it answers, each   *)
(*            a sequence of packets                                        *)
(*   fault, faultAt  the transport fault that strikes the faultAt-th       *)
(*            readPacket of the call (reads counts them):                  *)
(*              ioerr  reading the header fails                            *)
(*              trunc  the header arrives, reading the payload fails       *)
(*              short  the header declares the length 0                    *)
(*              seqHi, seqLo  the sequence byte is one more, one less than *)
(*                     conn.sequence (mod 256)                             *)
(*   ra       whether the buffer's fill reads ahead of the packet asked    *)
(*   junk     what the next read meets in the bytes left behind a header   *)
(*            whose payload was not consumed: "ioerr" as above, or "sync", *)
(*            a header with another sequence byte than the expected one    *)
(*   tlsOK    whether the TLS handshake succeeds                           *)
(* and, for the record, got: the packets readPacket returned to the call,  *)
(* and struck: the fault the last failing readPacket met.                  *)
(***************************************************************************)
Faults == {"ioerr", "trunc", "short", "seqHi", "seqLo"}
JunkKinds == {"ioerr", "sync"}
WErrs == {"ioError", "ErrMalformPkt"}

(***************************************************************************)
(* Texts.  A query text is a sequence of pieces [k, n, s]: k what the      *)
(* piece is, n its length in bytes and s its bytes where the model looks   *)
(* at them (bytes are their codes).  The pieces of a query as the caller   *)
(* writes it are "lit", n bytes without a '?', and "ph", the byte '?'.     *)
(***************************************************************************)
Lit(n) == [k |-> "lit", n |-> n, s |-> <<>>]
Ph == [k |-> "ph", n |-> 1, s |-> <<63>>]
Piece(k, s) == [k |-> k, n |-> Len(s), s |-> s]

\* len(buf)
RECURSIVE TextLen(_)
TextLen(t) == IF t = <<>> THEN 0 ELSE Head(t).n + TextLen(Tail(t))

\* the number of '?' in a text
RECURSIVE Placeholders(_)
Placeholders(t) ==
  IF t = <<>> THEN 0
  ELSE (IF Head(t).k = "ph" THEN 1 ELSE 0) + Placeholders(Tail(t))

(***************************************************************************)
(* buffer (write side): the buffer can be taken only when it holds no      *)
(* unread bytes.                                                           *)
(***************************************************************************)
takeBuffer(w) == ~w.n.busy

\* cleanup calling netConn.Close() whether or not netConn is still set
cleanupClosesAgain(w) ==
  [w EXCEPT !.c.netConn = FALSE, !.n.closes = @ + 1, !.n.inq = <<>>,
            !.c.cfgNil = TRUE]

(***************************************************************************)
(* Conn.cleanup                                                            *)
(***************************************************************************)
cleanup(w) ==
  Bind(IF w.c.netConn
                 \* netConn.Close(): nothing is read from the transport any more
                 THEN [w EXCEPT !.c.netConn = FALSE, !.n.closes = @ + 1,
                                !.n.inq = <<>>]
                 ELSE w, LAMBDA w1 :
       [w1 EXCEPT !.c.cfgNil = TRUE])

(***************************************************************************)
(* Conn.writePacket.  The payload data is [k, len, body, text]: what the   *)
(* packet is, its length, and what it carries, body naming its fields and  *)
(* text being the query text of a command that has one.  Every frame       *)
(* handed to netConn.Write is appended to n.sent: bytes tells which bytes  *)
(* of the payload it carries, ok whether Write took it whole; n.retries    *)
(* counts the frames that carry a retry of the authentication.             *)
(***************************************************************************)
AuthRetries == {"oldAuth", "clearAuth"}

Payload(k, len, body, text) == [k |-> k, len |-> len, body |-> body, text |-> text]

\* bytes of a payload: a sequence of spans [off, len], the len bytes from
\* offset off on; len(spans) and append(a, b), which makes one span of two
\* that follow each other
Span(off, len) == IF len = 0 THEN <<>> ELSE <<[off |-> off, len |-> len]>>

RECURSIVE SpanLen(_)
SpanLen(spans) == IF spans = <<>> THEN 0 ELSE Head(spans).len + SpanLen(Tail(spans))

append(a, b) ==
  IF a = <<>> \/ b = <<>> THEN a \o b
  ELSE LET l == a[Len(a)]
       IN IF l.off + l.len = b[1].off
          THEN SubSeq(a, 1, Len(a) - 1)
               \o <<[off |-> l.off, len |-> l.len + b[1].len]>> \o Tail(b)
          ELSE a \o b

\* the loop of writePacket, pktLen bytes of data being left from off on
RECURSIVE writeFrames(_, _, _, _)
writeFrames(w, data, pktLen, off) ==
  LET size == IF pktLen >= maxPacketSize THEN maxPacketSize ELSE pktLen
      ok == w.e.wcredit # 0
      frame == [k |-> data.k, seq |-> w.c.sequence, ok |-> ok, tls |-> w.c.tls,
                body |-> data.body, text |-> data.text,
                bytes |-> Span(off, size)]
      w1 == [w EXCEPT !.n.sent = Append(@, frame),
                      !.n.retries = IF data.k \in AuthRetries THEN @ + 1 ELSE @]
  IN IF ok
     THEN Bind([w1 EXCEPT !.c.sequence = (@ + 1) % SeqMod,
                          !.e.wcredit = IF @ > 0 THEN @ - 1 ELSE @], LAMBDA w2 :
               IF size # maxPacketSize THEN [w |-> w2, err |-> "nil"]
               ELSE writeFrames(w2, data, pktLen - size, off + size))
     ELSE [w |-> w1, err |-> w.e.werr]

\* writePacket not comparing the payload with conn.maxPacketAllowed
writePacketUnchecked(w, data) ==
  IF ~w.c.netConn THEN [w |-> w, err |-> "panic"]
  ELSE writeFrames(w, data, data.len, 0)

writePacket(w, data) ==
  IF data.len > w.c.maxPacketAllowed THEN [w |-> w, err |-> "ErrPktTooLarge"]
  ELSE IF ~w.c.netConn THEN [w |-> w, err |-> "panic"]
  ELSE writeFrames(w, data, data.len, 0)

(***************************************************************************)
(* Conn.writeCommandPacket, writeCommandPacketStr, writeCommandPacketUint32 *)
(***************************************************************************)
writeCommandPacket(w, command) ==
  LET w1 == [w EXCEPT !.c.sequence = 0]
  IN IF ~takeBuffer(w1) THEN [w |-> w1, err |-> "ErrBusyBuffer"]
     ELSE writePacket(w1, Payload(command, LenQuit, <<command>>, <<>>))

\* writeCommandPacketStr going on from the sequence number it finds
writeCommandPacketStrKeepsSequence(w, command, arg) ==
  IF ~takeBuffer(w) THEN [w |-> w, err |-> "ErrBusyBuffer"]
  ELSE writePacket(w, Payload(command, 1 + TextLen(arg), <<command, "arg">>, arg))

writeCommandPacketStr(w, command, arg) ==
  LET w1 == [w EXCEPT !.c.sequence = 0]
  IN IF ~takeBuffer(w1) THEN [w |-> w1, err |-> "ErrBusyBuffer"]
     ELSE writePacket(w1, Payload(command, 1 + TextLen(arg), <<command, "arg">>, arg))

writeCommandPacketUint32(w, command) ==
  LET w1 == [w EXCEPT !.c.sequence = 0]
  IN IF ~takeBuffer(w1) THEN [w |-> w1, err |-> "ErrBusyBuffer"]
     ELSE writePacket(w1, Payload(command, LenStmtClose, <<command, "uint32">>, <<>>))

\* Close sending COM_QUIT whether or not the transport is still there
CloseUnguarded(w) ==
  Bind(writeCommandPacket(w, "comQuit"), LAMBDA r :
       [w |-> cleanup(r.w), err |-> r.err])

(***************************************************************************)
(* Conn.Close                                                              *)
(***************************************************************************)
Close(w) ==
  Bind(IF w.c.netConn THEN writeCommandPacket(w, "comQuit")
                ELSE [w |-> w, err |-> "nil"], LAMBDA r :
       [w |-> cleanup(r.w), err |-> r.err])

(***************************************************************************)
(* The server answers a command it received: its packets follow whatever   *)
(* is still unread on the transport.  Behind a header whose payload was    *)
(* not consumed the stream no longer reads as the packets the server sent: *)
(* all of it is "junk".                                                    *)
(***************************************************************************)
Misframed(inq) == inq # <<>> /\ Head(inq).k = "junk"

\* the packets ks numbered as the server numbers them, from s0 on
Seqd(ks, s0) ==
  [i \in 1..Len(ks) |-> [seq |-> (s0 + i - 1) % SeqMod] @@ ks[i]]

\* the server numbers its answer from the sequence number that follows the
\* one of the packet it answers
Respond(w) ==
  IF w.e.resp = <<>> THEN w
  ELSE IF Misframed(w.n.inq) THEN [w EXCEPT !.e.resp = Tail(@)]
  ELSE [w EXCEPT !.n.inq = @ \o Seqd(Head(w.e.resp), w.c.sequence),
                 !.e.resp = Tail(@)]

(***************************************************************************)
(* Conn.readPacket                                                         *)
(***************************************************************************)
Junk == Pkt("junk", 0)

\* readPacket returning a read error without tearing the connection down
readFailedKeepsConn(w, err) == [w |-> w, err |-> err, data |-> NoPkt]

\* conn.Close(); return nil, err
readFailed(w, err) == [w |-> Close(w).w, err |-> err, data |-> NoPkt]

\* readPacket calling every sequence byte it refuses one too high
syncErrorAlwaysMul(seq, sequence) == "ErrPktSyncMul"

\* the error for a header whose sequence byte seq is not conn.sequence
syncError(seq, sequence) ==
  IF seq > sequence THEN "ErrPktSyncMul" ELSE "ErrPktSync"

\* pktLen, the length the header of p declares: the packets of the server
\* are of a length of 1 or more below the frame limit that the model does
\* not look at, a frame of the framing pair carries the bytes it names
pktLenOf(p) == IF "bytes" \in DOMAIN p THEN SpanLen(p.bytes) ELSE 1

\* the loop of readPacket, payload being the bytes of the frames read so far
RECURSIVE readFrames(_, _)
readFrames(w, payload) ==
  LET idx == w.e.reads + 1
      hit == w.e.faultAt = idx
      w0 == [w EXCEPT !.e.reads = idx]
  IN
  IF ~w.c.netConn THEN [w |-> w0, err |-> "panic", data |-> NoPkt]
  ELSE IF w.n.inq = <<>>
  THEN IF hit /\ w.e.fault = "ioerr"
       THEN readFailed([w0 EXCEPT !.e.struck = "ioerr"], "ioError")
       ELSE [w |-> w0, err |-> "blocked", data |-> NoPkt]
  ELSE
    LET p == Head(w.n.inq)
        rest == Tail(w.n.inq)
        \* what the read meets
        k == IF p.k = "junk" THEN w.e.junk
             ELSE IF hit THEN w.e.fault
             ELSE IF pktLenOf(p) < 1 THEN "short"
             ELSE "data"
        \* data[3], the sequence byte of the header
        seq == CASE p.k = "junk" -> (w.c.sequence + 1) % SeqMod
                 [] p.k # "junk" /\ k = "seqHi" -> (w.c.sequence + 1) % SeqMod
                 [] p.k # "junk" /\ k = "seqLo" ->
                      (w.c.sequence + SeqMod - 1) % SeqMod
                 [] OTHER -> p.seq
        \* the fault the read runs into: a payload that cannot be read is
        \* not met when the sequence byte is refused before
        w1 == [w0 EXCEPT !.e.struck =
                 IF k = "data" \/ (k = "trunc" /\ seq # w.c.sequence) THEN @
                 ELSE k]
        \* the packet has been taken from the buffer
        taken == [w1 EXCEPT !.n.inq = rest, !.n.busy = w.e.ra /\ rest # <<>>]
    IN CASE k = "ioerr" ->
              readFailed(w1, "ioError")
         [] k = "short" ->
              readFailed(taken, "ErrMalformPkt")
         [] k \notin {"ioerr", "short"} /\ seq # w.c.sequence ->
              [w |-> [w1 EXCEPT !.n.inq = <<Junk>>, !.n.busy = w.e.ra],
               err |-> syncError(seq, w.c.sequence),
               data |-> NoPkt]
         [] k = "trunc" /\ seq = w.c.sequence ->
              readFailed([w1 EXCEPT !.c.sequence = (@ + 1) % SeqMod], "ioError")
         [] OTHER ->
              LET w2 == [taken EXCEPT !.c.sequence = (@ + 1) % SeqMod]
                  isLastPacket == pktLenOf(p) < maxPacketSize
              IN IF isLastPacket /\ payload = <<>>
                 THEN [w |-> [w2 EXCEPT !.e.got = Append(@, p)],
                       err |-> "nil", data |-> p]
                 ELSE Bind(append(payload, p.bytes), LAMBDA joined :
                           IF isLastPacket
                           THEN Bind([p EXCEPT !.bytes = joined], LAMBDA data :
                                     [w |-> [w2 EXCEPT !.e.got = Append(@, data)],
                                      err |-> "nil", data |-> data])
                           ELSE readFrames(w2, joined))

\* readPacket expecting every packet to start at sequence number 0
readPacketFromZero(w) == readFrames([w EXCEPT !.c.sequence = 0], <<>>)

readPacket(w) == readFrames(w, <<>>)

(***************************************************************************)
(* Conn.handleErrorPacket                                                  *)
(***************************************************************************)
handleErrorPacket(data) == IF ~IsERR(data) THEN "ErrMalformPkt" ELSE "ServerError"

(***************************************************************************)
(* Conn.readUntilEOF: skips packets up to one whose first byte is 0xfe.    *)
(***************************************************************************)
RECURSIVE readUntilEOF(_)
readUntilEOF(w) ==
  Bind(readPacket(w), LAMBDA r :
       IF r.err = "nil" /\ ~IsEOFByte(r.data) THEN readUntilEOF(r.w)
       ELSE [w |-> r.w, err |-> r.err])

(***************************************************************************)
(* Conn.readColumns                                                        *)
(***************************************************************************)
RECURSIVE readColumnsFrom(_, _, _)
readColumnsFrom(w, count, i) ==
  Bind(readPacket(w), LAMBDA r :
       IF r.err # "nil" THEN [w |-> r.w, err |-> r.err, columns |-> FALSE]
       ELSE IF IsEOFByte(r.data) /\ r.data.k \in {"eof", "eof1"}
       THEN IF i = count THEN [w |-> r.w, err |-> "nil", columns |-> TRUE]
            ELSE [w |-> r.w, err |-> "ColumnsCountMismatch", columns |-> FALSE]
       ELSE IF r.data.k # "col" THEN [w |-> r.w, err |-> "EOF", columns |-> FALSE]
       ELSE IF i >= count THEN [w |-> r.w, err |-> "panic", columns |-> FALSE]
       ELSE readColumnsFrom(r.w, count, i + 1))

readColumns(w, count) == readColumnsFrom(w, count, 0)

\* the row set of a Query answered by an OK packet tied to the connection
emptyRowsOnConn == [kind |-> "text", conn |-> TRUE, err |-> "nil", data |-> FALSE]

(***************************************************************************)
(* Row sets.  rows.conn tells whether the back-reference is set; kind is   *)
(* the Go type behind the Rows interface ("none": no row set, the caller   *)
(* got nil).                                                               *)
(***************************************************************************)
NoRows == [kind |-> "none", conn |-> FALSE, err |-> "nil", data |-> FALSE]
emptyRows == [kind |-> "empty", conn |-> FALSE, err |-> "nil", data |-> FALSE]
newRows(kind) == [kind |-> kind, conn |-> TRUE, err |-> "nil", data |-> FALSE]

\* textRows.readRow keeping the connection at the EOF packet
textReadRowKeepsConn(w, rows) ==
  Bind(readPacket(w), LAMBDA r :
       IF r.err # "nil" THEN [w |-> r.w, rows |-> rows, err |-> r.err]
       ELSE IF IsEOFByte(r.data) /\ IsEOFPkt(r.data)
       THEN [w |-> r.w, rows |-> rows, err |-> "EOF"]
       ELSE IF IsERR(r.data)
       THEN [w |-> r.w, rows |-> [rows EXCEPT !.conn = FALSE],
             err |-> handleErrorPacket(r.data)]
       ELSE [w |-> r.w, rows |-> [rows EXCEPT !.data = TRUE], err |-> "nil"])

(***************************************************************************)
(* textRows.readRow and binaryRows.readRow                                 *)
(***************************************************************************)
textReadRow(w, rows) ==
  Bind(readPacket(w), LAMBDA r :
       IF r.err # "nil" THEN [w |-> r.w, rows |-> rows, err |-> r.err]
       ELSE IF IsEOFByte(r.data) /\ IsEOFPkt(r.data)
       THEN [w |-> r.w, rows |-> [rows EXCEPT !.conn = FALSE], err |-> "EOF"]
       ELSE IF IsERR(r.data)
       THEN [w |-> r.w, rows |-> [rows EXCEPT !.conn = FALSE],
             err |-> handleErrorPacket(r.data)]
       ELSE [w |-> r.w, rows |-> [rows EXCEPT !.data = TRUE], err |-> "nil"])

binaryReadRow(w, rows) ==
  Bind(readPacket(w), LAMBDA r :
       IF r.err # "nil" THEN [w |-> r.w, rows |-> rows, err |-> r.err]
       ELSE IF ~IsOK(r.data)
       THEN [w |-> r.w, rows |-> [rows EXCEPT !.conn = FALSE],
             err |-> IF IsEOFByte(r.data) /\ IsEOFPkt(r.data) THEN "EOF"
                     ELSE handleErrorPacket(r.data)]
       ELSE [w |-> r.w, rows |-> [rows EXCEPT !.data = TRUE], err |-> "nil"])

readRow(w, rows) ==
  IF rows.kind = "binary" THEN binaryReadRow(w, rows) ELSE textReadRow(w, rows)

(***************************************************************************)
(* iRows.Close, emptyRows.Close                                            *)
(***************************************************************************)
rowsClose(w, rows) ==
  IF rows.kind = "empty" THEN [w |-> w, rows |-> rows, err |-> "nil"]
  ELSE IF ~rows.conn THEN [w |-> w, rows |-> rows, err |-> "nil"]
  ELSE IF ~w.c.netConn THEN [w |-> w, rows |-> rows, err |-> "ErrInvalidConn"]
  ELSE Bind(readUntilEOF(w), LAMBDA r :
            [w |-> r.w, rows |-> [rows EXCEPT !.conn = FALSE], err |-> r.err])

(***************************************************************************)
(* textRows.Next, binaryRows.Next, emptyRows.Next.  ok is the returned     *)
(* bool; fatal carries a panic or a read that never returns.               *)
(***************************************************************************)
rowsNext(w, rows) ==
  IF rows.kind = "empty" THEN [w |-> w, rows |-> rows, ok |-> FALSE, fatal |-> "nil"]
  ELSE IF rows.conn
  THEN IF ~w.c.netConn
       THEN [w |-> w, rows |-> [rows EXCEPT !.err = "ErrInvalidConn"],
             ok |-> FALSE, fatal |-> "nil"]
       ELSE Bind(readRow(w, rows), LAMBDA r :
                 [w |-> r.w, rows |-> [r.rows EXCEPT !.err = r.err],
                  ok |-> r.err # "EOF",
                  fatal |-> IF r.err \in Fatal THEN r.err ELSE "nil"])
  ELSE [w |-> w, rows |-> rows, ok |-> FALSE, fatal |-> "nil"]

(***************************************************************************)
(* textRows.Scan, binaryRows.Scan, emptyRows.Scan                          *)
(***************************************************************************)
rowsScan(rows) ==
  IF rows.kind = "empty" THEN [rows |-> rows, err |-> "ErrNoRows"]
  ELSE IF rows.err # "nil" THEN [rows |-> rows, err |-> rows.err]
  ELSE IF ~rows.data THEN [rows |-> rows, err |-> "ErrNoRows"]
  ELSE [rows |-> [rows EXCEPT !.data = FALSE], err |-> "nil"]

\* the arguments of a call: nil, an int64, a string, a []byte (nil or not),
\* and a value of a type the driver does not interpolate
\* [t, i, v]: the type, the value of an int64, the bytes of a string or []byte
NilArg == [t |-> "nil", i |-> 0, v |-> <<>>]
IntArg(i) == [t |-> "int64", i |-> i, v |-> <<>>]
StringArg(v) == [t |-> "string", i |-> 0, v |-> v]
BytesArg(v) == [t |-> "bytes", i |-> 0, v |-> v]
NilBytesArg == [t |-> "nilBytes", i |-> 0, v |-> <<>>]
OtherArg == [t |-> "other", i |-> 0, v |-> <<>>]

\* strconv.AppendInt(buf, v, 10): '-' is 45, '0' is 48
RECURSIVE AppendInt(_)
AppendInt(v) ==
  IF v < 0 THEN <<45>> \o AppendInt(-v)
  ELSE IF v < 10 THEN <<48 + v>>
  ELSE AppendInt(v \div 10) \o <<48 + (v % 10)>>

(***************************************************************************)
(* The escape routines: escapeBytesBackslash and escapeStringBackslash put *)
(* a backslash (92) before NUL, \n, \r, \x1a, ', " and \, writing NUL as   *)
(* \0 and \x1a as \Z; escapeBytesQuotes and escapeStringQuotes double the  *)
(* single quote (39) and nothing else.                                     *)
(***************************************************************************)
RECURSIVE escapeBytesBackslash(_)
escapeBytesBackslash(v) ==
  IF v = <<>> THEN <<>>
  ELSE LET c == Head(v)
       IN (CASE c = 0 -> <<92, 48>>
             [] c = 10 -> <<92, 110>>
             [] c = 13 -> <<92, 114>>
             [] c = 26 -> <<92, 90>>
             [] c \in {34, 39, 92} -> <<92, c>>
             [] OTHER -> <<c>>) \o escapeBytesBackslash(Tail(v))

RECURSIVE escapeBytesQuotes(_)
escapeBytesQuotes(v) ==
  IF v = <<>> THEN <<>>
  ELSE (IF Head(v) = 39 THEN <<39, 39>> ELSE <<Head(v)>>)
       \o escapeBytesQuotes(Tail(v))

escapeStringBackslash(v) == escapeBytesBackslash(v)
escapeStringQuotes(v) == escapeBytesQuotes(v)

\* SERVER_STATUS_NO_BACKSLASH_ESCAPES, a bit of the status flags (a set)
statusNoBackslashEscapes == "statusNoBackslashEscapes"

(***************************************************************************)
(* Conn.interpolateParams: the loop over the '?' of the query from its     *)
(* i-th piece on, buf and argPos being what the loop built so far, and the *)
(* function.  Arguments of the types float64, bool and time.Time are not   *)
(* modelled.                                                               *)
(***************************************************************************)
\* interpolateParams taking the backslash routines whatever conn.status is
escapedAlwaysBackslash(w, v) == escapeBytesBackslash(v)

\* the routine lines 305-309 and 314-318 select
escaped(w, v) ==
  IF statusNoBackslashEscapes \notin w.c.status THEN escapeBytesBackslash(v)
  ELSE escapeBytesQuotes(v)

\* what the switch on the type of a non-nil argument appends
interpolated(w, arg) ==
  CASE arg.t = "int64" -> <<Piece("int", AppendInt(arg.i))>>
    [] arg.t = "nilBytes" -> <<Piece("NULL", <<78, 85, 76, 76>>)>>
    [] arg.t = "bytes" ->
         <<Piece("bin", <<95, 98, 105, 110, 97, 114, 121, 39>>
                        \o escaped(w, arg.v) \o <<39>>)>>
    [] arg.t = "string" -> <<Piece("str", <<39>> \o escaped(w, arg.v) \o <<39>>)>>

RECURSIVE interpolateLoop(_, _, _, _, _, _)
interpolateLoop(w, query, args, i, buf, argPos) ==
  IF i > Len(query) THEN [buf |-> buf, argPos |-> argPos, err |-> "nil"]
  ELSE IF \A j \in i..Len(query) : query[j].k # "ph"
  \* q == -1: the rest of the query is appended, break
  THEN [buf |-> buf \o SubSeq(query, i, Len(query)), argPos |-> argPos,
        err |-> "nil"]
  ELSE IF query[i].k # "ph"
  THEN interpolateLoop(w, query, args, i + 1, Append(buf, query[i]), argPos)
  \* arg := args[argPos]
  ELSE IF argPos >= Len(args)
  THEN [buf |-> buf, argPos |-> argPos, err |-> "panic"]
  ELSE
    LET arg == args[argPos + 1]
    IN IF arg.t = "nil"
       THEN interpolateLoop(w, query, args, i + 1,
                            Append(buf, Piece("NULL", <<78, 85, 76, 76>>)),
                            argPos + 1)
       ELSE IF arg.t = "other"
       THEN [buf |-> buf, argPos |-> argPos + 1, err |-> "ErrUnsafeInterpolate"]
       ELSE
         LET buf1 == buf \o interpolated(w, arg)
         IN IF TextLen(buf1) + 4 > w.c.maxPacketAllowed
            THEN [buf |-> buf1, argPos |-> argPos + 1, err |-> "ErrPktTooLarge"]
            ELSE interpolateLoop(w, query, args, i + 1, buf1, argPos + 1)

interpolateParams(w, query, args) ==
  IF ~takeBuffer(w) THEN [query |-> <<>>, err |-> "ErrBusyBuffer"]
  ELSE
    Bind(interpolateLoop(w, query, args, 1, <<>>, 0), LAMBDA r :
         IF r.err # "nil" THEN [query |-> <<>>, err |-> r.err]
         ELSE IF r.argPos # Len(args)
         THEN [query |-> <<>>, err |-> "ErrInterpolateFailed"]
         ELSE [query |-> r.buf, err |-> "nil"])

\* a query q of a caller is [query, args]
PlainQuery(len) == [query |-> <<Lit(len)>>, args |-> <<>>]
\* conn.Query("SHOW WARNINGS", nil): one nil argument, no placeholder
ShowWarnings == [query |-> <<Lit(13)>>, args |-> <<NilArg>>]

RECURSIVE Query(_, _)

(***************************************************************************)
(* Conn.getWarnings                                                        *)
(***************************************************************************)
RECURSIVE getWarningsRows(_, _)
getWarningsRows(w, rows) ==
  Bind(rowsNext(w, rows), LAMBDA nx :
       IF nx.fatal # "nil" THEN [w |-> nx.w, err |-> nx.fatal]
       ELSE IF ~nx.ok THEN [w |-> nx.w, err |-> "Warnings"]
       ELSE Bind(rowsScan(nx.rows), LAMBDA sc :
                 IF sc.err # "nil"
                 THEN [w |-> rowsClose(nx.w, sc.rows).w, err |-> sc.err]
                 ELSE getWarningsRows(nx.w, sc.rows)))

getWarnings(w) ==
  Bind(Query(w, ShowWarnings), LAMBDA q :
       IF q.err # "nil" THEN [w |-> q.w, err |-> q.err]
       ELSE getWarningsRows(q.w, q.rows))

\* handleOkPacket asking for the warnings whether strict is set or not
handleOkPacketAlwaysStrict(w, data) ==
  LET w1 == [w EXCEPT !.c.affectedRows = data.ar, !.c.insertID = data.id,
                      !.c.status = data.status]
  IN IF data.k = "okw" THEN getWarnings(w1) ELSE [w |-> w1, err |-> "nil"]

\* handleOkPacket setting the sequence number back once the packet is read
handleOkPacketResetsSequence(w, data) ==
  LET w1 == [w EXCEPT !.c.affectedRows = data.ar, !.c.insertID = data.id,
                      !.c.status = data.status, !.c.sequence = 0]
  IN IF ~w1.c.strict THEN [w |-> w1, err |-> "nil"]
     ELSE IF data.k = "okw" THEN getWarnings(w1)
     ELSE [w |-> w1, err |-> "nil"]

(***************************************************************************)
(* Conn.handleOkPacket                                                     *)
(***************************************************************************)
handleOkPacket(w, data) ==
  LET w1 == [w EXCEPT !.c.affectedRows = data.ar, !.c.insertID = data.id,
                      !.c.status = data.status]
  IN IF ~w1.c.strict THEN [w |-> w1, err |-> "nil"]
     ELSE IF data.k = "okw" THEN getWarnings(w1)
     ELSE [w |-> w1, err |-> "nil"]

\* readResultOK treating every plugin it does not know as the old-password one
readResultOKOldByDefault(w) ==
  Bind(readPacket(w), LAMBDA r :
       IF r.err # "nil" THEN [w |-> r.w, err |-> r.err]
       ELSE IF IsOK(r.data) THEN [w |-> r.w, err |-> "nil"]
       ELSE IF IsEOFByte(r.data)
       THEN [w |-> r.w,
             err |-> IF r.data.k = "authSwitch" /\ r.data.nul
                        /\ r.data.plugin = "mysql_clear_password"
                     THEN "ErrCleartextPassword"
                     ELSE "ErrOldPassword"]
       ELSE [w |-> r.w, err |-> handleErrorPacket(r.data)])

(***************************************************************************)
(* Conn.readResultOK                                                       *)
(***************************************************************************)
readResultOK(w) ==
  Bind(readPacket(w), LAMBDA r :
       IF r.err # "nil" THEN [w |-> r.w, err |-> r.err]
       ELSE IF IsOK(r.data) THEN handleOkPacket(r.w, r.data)
       ELSE IF IsEOFByte(r.data)
       THEN [w |-> r.w,
             err |-> IF r.data.k = "authSwitch"
                     THEN IF ~r.data.nul THEN "panic"
                          ELSE IF r.data.plugin = "mysql_old_password"
                          THEN "ErrOldPassword"
                          ELSE IF r.data.plugin = "mysql_clear_password"
                          THEN "ErrCleartextPassword"
                          ELSE "ErrUnknownPlugin"
                     ELSE IF r.data.k = "eof1" THEN "ErrOldPassword"
                     ELSE "ErrUnknownPlugin"]
       ELSE [w |-> r.w, err |-> handleErrorPacket(r.data)])

(***************************************************************************)
(* Conn.readResultSetHeaderPacket                                          *)
(***************************************************************************)
readResultSetHeaderPacket(w) ==
  Bind(readPacket(w), LAMBDA r :
       IF r.err # "nil" THEN [w |-> r.w, err |-> r.err, resLen |-> 0]
       ELSE IF IsOK(r.data)
       THEN Bind(handleOkPacket(r.w, r.data), LAMBDA h :
                 [w |-> h.w, err |-> h.err, resLen |-> 0])
       ELSE IF IsERR(r.data)
       THEN [w |-> r.w, err |-> handleErrorPacket(r.data), resLen |-> 0]
       ELSE IF r.data.k = "hdr" THEN [w |-> r.w, err |-> "nil", resLen |-> r.data.n]
       ELSE [w |-> r.w, err |-> "ErrMalformPkt", resLen |-> 0])

(***************************************************************************)
(* Conn.Query                                                              *)
(***************************************************************************)
Query(w, q) ==
  IF ~w.c.netConn THEN [w |-> w, rows |-> NoRows, err |-> "ErrInvalidConn"]
  ELSE
    Bind(IF Len(q.args) # 0 THEN interpolateParams(w, q.query, q.args)
                            ELSE [query |-> q.query, err |-> "nil"], LAMBDA ip :
         IF ip.err # "nil" THEN [w |-> w, rows |-> NoRows, err |-> ip.err]
         ELSE
           Bind(writeCommandPacketStr(w, "comQuery", ip.query), LAMBDA wr :
                IF wr.err # "nil" THEN [w |-> wr.w, rows |-> NoRows, err |-> wr.err]
                ELSE
                  Bind(readResultSetHeaderPacket(Respond(wr.w)), LAMBDA h :
                       IF h.err # "nil" THEN [w |-> h.w, rows |-> NoRows, err |-> h.err]
                       ELSE IF h.resLen = 0
                       THEN [w |-> h.w, rows |-> emptyRows, err |-> "nil"]
                       ELSE Bind(readColumns(h.w, h.resLen), LAMBDA cr :
                                 [w |-> cr.w, rows |-> newRows("text"), err |-> cr.err]))))

(***************************************************************************)
(* Conn.exec and Conn.Exec                                                 *)
(***************************************************************************)
exec(w, query) ==
  Bind(writeCommandPacketStr(w, "comQuery", query), LAMBDA wr :
       IF wr.err # "nil" THEN wr
       ELSE
         Bind(readResultSetHeaderPacket(Respond(wr.w)), LAMBDA h :
              IF h.err = "nil" /\ h.resLen > 0
              THEN Bind(readUntilEOF(h.w), LAMBDA e1 :
                        IF e1.err # "nil" THEN e1 ELSE readUntilEOF(e1.w))
              ELSE [w |-> h.w, err |-> h.err]))

\* Exec handing back whatever the connection has latched
ExecKeepsLatched(w, q) ==
  IF ~w.c.netConn THEN [w |-> w, err |-> "ErrInvalidConn", res |-> NoResult]
  ELSE
    Bind(exec(w, q.query), LAMBDA r :
         [w |-> r.w, err |-> r.err,
          res |-> IF r.err = "nil"
                  THEN Result(r.w.c.affectedRows, r.w.c.insertID)
                  ELSE NoResult])

Exec(w, q) ==
  IF ~w.c.netConn THEN [w |-> w, err |-> "ErrInvalidConn", res |-> NoResult]
  ELSE
    Bind(IF Len(q.args) # 0 THEN interpolateParams(w, q.query, q.args)
                            ELSE [query |-> q.query, err |-> "nil"], LAMBDA ip :
         IF ip.err # "nil" THEN [w |-> w, err |-> ip.err, res |-> NoResult]
         ELSE
           Bind(exec([w EXCEPT !.c.affectedRows = 0, !.c.insertID = 0], ip.query),
                LAMBDA r :
                [w |-> r.w, err |-> r.err,
                 res |-> IF r.err = "nil"
                         THEN Result(r.w.c.affectedRows, r.w.c.insertID)
                         ELSE NoResult]))

(***************************************************************************)
(* Conn.getSystemVar: val is the value of the first column of the row.     *)
(***************************************************************************)
getSystemVar(w) ==
  Bind(writeCommandPacketStr(w, "comQuery", <<Lit(LenSelectMaxAP)>>), LAMBDA wr :
       IF wr.err # "nil" THEN [w |-> wr.w, err |-> wr.err, val |-> 0]
       ELSE
         Bind(readResultSetHeaderPacket(Respond(wr.w)), LAMBDA h :
              IF h.err # "nil" THEN [w |-> h.w, err |-> h.err, val |-> 0]
              ELSE
                Bind(IF h.resLen > 0 THEN readUntilEOF(h.w)
                                 ELSE [w |-> h.w, err |-> "nil"], LAMBDA cols :
                     IF cols.err # "nil" THEN [w |-> cols.w, err |-> cols.err, val |-> 0]
                     ELSE
                       Bind(readPacket(cols.w), LAMBDA rr :
                       LET rerr == IF rr.err # "nil" THEN rr.err
                                   ELSE IF IsEOFByte(rr.data) /\ IsEOFPkt(rr.data) THEN "EOF"
                                   ELSE IF IsERR(rr.data) THEN handleErrorPacket(rr.data)
                                   ELSE "nil"
                       IN IF rerr # "nil" THEN [w |-> rr.w, err |-> rerr, val |-> 0]
                          \* dest[0] of a row without columns
                          ELSE IF h.resLen = 0 \/ rr.data.k # "row"
                          THEN [w |-> rr.w, err |-> "panic", val |-> 0]
                          ELSE Bind(readUntilEOF(rr.w), LAMBDA e2 :
                                    [w |-> e2.w, err |-> e2.err, val |-> rr.data.val])))))

(***************************************************************************)
(* Statements.  stmt.conn tells whether the back-reference is set,         *)
(* columns whether the column definitions are cached.                      *)
(***************************************************************************)
NoStmt == [exists |-> FALSE, conn |-> FALSE, id |-> 0, paramCount |-> 0, columns |-> FALSE]
newStmt == [exists |-> TRUE, conn |-> TRUE, id |-> 0, paramCount |-> 0, columns |-> FALSE]

(***************************************************************************)
(* Stmt.readPrepareResultPacket                                            *)
(***************************************************************************)
readPrepareResultPacket(w, stmt) ==
  Bind(readPacket(w), LAMBDA r :
       IF r.err # "nil" THEN [w |-> r.w, stmt |-> stmt, err |-> r.err, columnCount |-> 0]
       ELSE IF ~IsOK(r.data)
       THEN [w |-> r.w, stmt |-> stmt, err |-> handleErrorPacket(r.data), columnCount |-> 0]
       ELSE
         LET st == [stmt EXCEPT !.id = r.data.id, !.paramCount = r.data.params]
         IN IF ~r.w.c.strict
            THEN [w |-> r.w, stmt |-> st, err |-> "nil", columnCount |-> r.data.cols]
            ELSE IF r.data.warn
            THEN Bind(getWarnings(r.w), LAMBDA g :
                      [w |-> g.w, stmt |-> st, err |-> g.err, columnCount |-> r.data.cols])
            ELSE [w |-> r.w, stmt |-> st, err |-> "nil", columnCount |-> r.data.cols])

(***************************************************************************)
(* Conn.Prepare: stmt is the returned *Stmt (NoStmt: nil).                 *)
(***************************************************************************)
Prepare(w, query) ==
  IF ~w.c.netConn THEN [w |-> w, stmt |-> NoStmt, err |-> "ErrInvalidConn"]
  ELSE
    Bind(writeCommandPacketStr(w, "comStmtPrepare", query), LAMBDA wr :
         IF wr.err # "nil" THEN [w |-> wr.w, stmt |-> NoStmt, err |-> wr.err]
         ELSE
           Bind(readPrepareResultPacket(Respond(wr.w), newStmt), LAMBDA r :
                IF r.err # "nil" THEN [w |-> r.w, stmt |-> r.stmt, err |-> r.err]
                ELSE
                  Bind(IF r.stmt.paramCount > 0 THEN readUntilEOF(r.w)
                                 ELSE [w |-> r.w, err |-> "nil"], LAMBDA ps :
                       IF ps.err # "nil" THEN [w |-> ps.w, stmt |-> NoStmt, err |-> ps.err]
                       ELSE IF r.columnCount > 0
                       THEN Bind(readUntilEOF(ps.w), LAMBDA cs :
                                 [w |-> cs.w, stmt |-> r.stmt, err |-> cs.err])
                       ELSE [w |-> ps.w, stmt |-> r.stmt, err |-> "nil"])))

(***************************************************************************)
(* Stmt.writeCommandLongData.  data is what is left of arg; a chunk is the *)
(* first pktLen bytes of command, statement id, parameter index and data.  *)
(***************************************************************************)
dataOffset == 7

uint32Bytes(v) ==
  <<v % 256, (v \div 256) % 256, (v \div 65536) % 256, (v \div 16777216) % 256>>

uint16Bytes(v) == <<v % 256, (v \div 256) % 256>>

\* the first n bytes of text t, piece by piece
RECURSIVE Take(_, _)
Take(t, n) ==
  IF t = <<>> \/ n <= 0 THEN <<>>
  ELSE IF t[1].n <= n THEN <<t[1]>> \o Take(Tail(t), n - t[1].n)
  ELSE <<Piece(t[1].k, SubSeq(t[1].s, 1, n))>>

Kinds(t) == [i \in 1..Len(t) |-> t[i].k]

LongDataChunk(stmt, paramID, data, pktLen) ==
  LET text == Take(<<Piece("comStmtSendLongData", <<24>>),
                     Piece("id", uint32Bytes(stmt.id)),
                     Piece("paramID", uint16Bytes(paramID)),
                     Piece("data", data)>>, pktLen)
  IN Payload("comStmtSendLongData", pktLen, Kinds(text), text)

\* a chunk written with the sequence number the connection has
RECURSIVE longDataLoopKeepsSequence(_, _, _, _, _, _)
longDataLoopKeepsSequence(w, stmt, paramID, data, argLen, pktLen0) ==
  IF argLen <= 0 THEN [w |-> [w EXCEPT !.c.sequence = 0], err |-> "nil"]
  ELSE
    LET maxLen == w.c.maxPacketAllowed - 1
        pktLen == IF dataOffset + argLen < maxLen THEN dataOffset + argLen
                  ELSE pktLen0
    IN Bind(writePacket(w, LongDataChunk(stmt, paramID, data, pktLen)), LAMBDA wr :
            IF wr.err # "nil" THEN wr
            ELSE IF pktLen - dataOffset < 0 THEN [w |-> wr.w, err |-> "panic"]
            ELSE IF pktLen - dataOffset = 0 THEN [w |-> wr.w, err |-> "diverges"]
            ELSE longDataLoopKeepsSequence(wr.w, stmt, paramID,
                              SubSeq(data, pktLen - dataOffset + 1, Len(data)),
                              argLen - (pktLen - dataOffset), pktLen))

RECURSIVE longDataLoop(_, _, _, _, _, _)
longDataLoop(w, stmt, paramID, data, argLen, pktLen0) ==
  IF argLen <= 0 THEN [w |-> [w EXCEPT !.c.sequence = 0], err |-> "nil"]
  ELSE
    LET maxLen == w.c.maxPacketAllowed - 1
        pktLen == IF dataOffset + argLen < maxLen THEN dataOffset + argLen
                  ELSE pktLen0
        w1 == [w EXCEPT !.c.sequence = 0]
    IN Bind(writePacket(w1, LongDataChunk(stmt, paramID, data, pktLen)), LAMBDA wr :
            IF wr.err # "nil" THEN wr
            ELSE IF pktLen - dataOffset < 0 THEN [w |-> wr.w, err |-> "panic"]
            ELSE IF pktLen - dataOffset = 0 THEN [w |-> wr.w, err |-> "diverges"]
            ELSE longDataLoop(wr.w, stmt, paramID,
                              SubSeq(data, pktLen - dataOffset + 1, Len(data)),
                              argLen - (pktLen - dataOffset), pktLen))

writeCommandLongData(w, stmt, paramID, arg) ==
  longDataLoop(w, stmt, paramID, arg, Len(arg), w.c.maxPacketAllowed - 1)

(***************************************************************************)
(* Stmt.writeExecutePacket.  values is paramValues; pos counts the four    *)
(* header bytes, as the code does.                                         *)
(***************************************************************************)
minPktLen == 14

Raw(k, n) == [k |-> k, n |-> n, s |-> <<>>]

\* the bytes appendLengthEncodedInteger appends for n
lengthEncodedIntegerLen(n) ==
  IF n < 251 THEN 1 ELSE IF n < 65536 THEN 3 ELSE IF n < 16777216 THEN 4 ELSE 9

RECURSIVE executeArgs(_, _, _, _, _, _)
executeArgs(w, stmt, args, i, pos, values) ==
  IF i >= Len(args) THEN [w |-> w, err |-> "nil", values |-> values]
  ELSE
    LET arg == args[i + 1]
    IN CASE arg.t \in {"nil", "nilBytes"} ->
              executeArgs(w, stmt, args, i + 1, pos, values)
         [] arg.t = "int64" ->
              executeArgs(w, stmt, args, i + 1, pos, values \o <<Raw("int64", 8)>>)
         [] arg.t \in {"string", "bytes"} ->
              IF Len(arg.v) < w.c.maxPacketAllowed - pos - TextLen(values)
                                - (Len(args) - (i + 1)) * 64
              THEN executeArgs(w, stmt, args, i + 1, pos,
                               values \o <<Raw("length", lengthEncodedIntegerLen(Len(arg.v))),
                                           Piece("value", arg.v)>>)
              ELSE Bind(writeCommandLongData(w, stmt, i, arg.v), LAMBDA ld :
                        IF ld.err # "nil"
                        THEN [w |-> ld.w, err |-> ld.err, values |-> values]
                        ELSE executeArgs(ld.w, stmt, args, i + 1, pos, values))
         [] OTHER -> [w |-> w, err |-> "CantConvertType", values |-> values]

writeExecutePacket(w, stmt, args) ==
  IF Len(args) # stmt.paramCount THEN [w |-> w, err |-> "ArgumentsCountMismatch"]
  ELSE LET w1 == [w EXCEPT !.c.sequence = 0]
           head == <<Raw("comStmtExecute", 1), Piece("id", uint32Bytes(stmt.id)),
                     Raw("flags", 1), Raw("iterations", 4)>>
       IN IF ~takeBuffer(w1) THEN [w |-> w1, err |-> "ErrBusyBuffer"]
          ELSE IF Len(args) = 0
          THEN writePacket(w1, Payload("comStmtExecute", TextLen(head), Kinds(head), head))
          ELSE
            LET maskLen == (Len(args) + 7) \div 8
                pos == minPktLen + maskLen + 1 + 2 * Len(args)
                params == <<Raw("nullMask", maskLen), Raw("newParameterBoundFlag", 1),
                            Raw("paramTypes", 2 * Len(args))>>
            IN Bind(executeArgs(w1, stmt, args, 0, pos, <<>>), LAMBDA a :
                    IF a.err # "nil" THEN [w |-> a.w, err |-> a.err]
                    ELSE writePacket(a.w, Payload("comStmtExecute",
                                       pos - 4 + TextLen(a.values),
                                       Kinds(head), head \o params \o a.values)))

(***************************************************************************)
(* Stmt.Close                                                              *)
(***************************************************************************)
stmtClose(w, stmt) ==
  IF ~stmt.conn \/ ~w.c.netConn
  THEN [w |-> w, stmt |-> stmt, err |-> "ErrInvalidConn"]
  ELSE Bind(writeCommandPacketUint32(w, "comStmtClose"), LAMBDA wr :
            [w |-> wr.w, stmt |-> [stmt EXCEPT !.conn = FALSE], err |-> wr.err])

(***************************************************************************)
(* Stmt.Exec                                                               *)
(***************************************************************************)
stmtExec(w, stmt, args) ==
  IF ~stmt.conn THEN [w |-> w, err |-> "panic", res |-> NoResult]
  ELSE IF ~w.c.netConn THEN [w |-> w, err |-> "ErrInvalidConn", res |-> NoResult]
  ELSE
    Bind(writeExecutePacket(w, stmt, args), LAMBDA wr :
         IF wr.err # "nil" THEN [w |-> wr.w, err |-> wr.err, res |-> NoResult]
         ELSE
           Bind(readResultSetHeaderPacket(
                  Respond([wr.w EXCEPT !.c.affectedRows = 0, !.c.insertID = 0])),
                LAMBDA h :
                IF h.err # "nil" THEN [w |-> h.w, err |-> h.err, res |-> NoResult]
                ELSE
                  Bind(IF h.resLen > 0
                       THEN Bind(readUntilEOF(h.w), LAMBDA e1 :
                                 IF e1.err # "nil" THEN e1 ELSE readUntilEOF(e1.w))
                       ELSE [w |-> h.w, err |-> "nil"], LAMBDA d :
                       [w |-> d.w, err |-> d.err,
                        res |-> IF d.err = "nil"
                                THEN Result(d.w.c.affectedRows, d.w.c.insertID)
                                ELSE NoResult])))

\* Stmt.Query leaving the column definitions unread when it has them cached
stmtQueryCachedSkipsColumns(w, stmt, args) ==
  IF ~stmt.conn THEN [w |-> w, stmt |-> stmt, rows |-> NoRows, err |-> "panic"]
  ELSE IF ~w.c.netConn
  THEN [w |-> w, stmt |-> stmt, rows |-> NoRows, err |-> "ErrInvalidConn"]
  ELSE
    Bind(writeExecutePacket(w, stmt, args), LAMBDA wr :
         IF wr.err # "nil"
         THEN [w |-> wr.w, stmt |-> stmt, rows |-> NoRows, err |-> wr.err]
         ELSE
           Bind(readResultSetHeaderPacket(Respond(wr.w)), LAMBDA h :
                IF h.err # "nil"
                THEN [w |-> h.w, stmt |-> stmt, rows |-> NoRows, err |-> h.err]
                ELSE IF h.resLen > 0
                THEN IF ~stmt.columns
                     THEN Bind(readColumns(h.w, h.resLen), LAMBDA cr :
                               [w |-> cr.w, stmt |-> [stmt EXCEPT !.columns = cr.columns],
                                rows |-> newRows("binary"), err |-> cr.err])
                     ELSE [w |-> h.w, stmt |-> stmt, rows |-> newRows("binary"),
                           err |-> "nil"]
                ELSE [w |-> h.w, stmt |-> stmt, rows |-> newRows("binary"), err |-> "nil"]))

(***************************************************************************)
(* Stmt.Query: rows is the returned Rows (NoRows: nil).                    *)
(***************************************************************************)
stmtQuery(w, stmt, args) ==
  IF ~stmt.conn THEN [w |-> w, stmt |-> stmt, rows |-> NoRows, err |-> "panic"]
  ELSE IF ~w.c.netConn
  THEN [w |-> w, stmt |-> stmt, rows |-> NoRows, err |-> "ErrInvalidConn"]
  ELSE
    Bind(writeExecutePacket(w, stmt, args), LAMBDA wr :
         IF wr.err # "nil"
         THEN [w |-> wr.w, stmt |-> stmt, rows |-> NoRows, err |-> wr.err]
         ELSE
           Bind(readResultSetHeaderPacket(Respond(wr.w)), LAMBDA h :
                IF h.err # "nil"
                THEN [w |-> h.w, stmt |-> stmt, rows |-> NoRows, err |-> h.err]
                ELSE IF h.resLen > 0
                THEN IF ~stmt.columns
                     THEN Bind(readColumns(h.w, h.resLen), LAMBDA cr :
                               [w |-> cr.w, stmt |-> [stmt EXCEPT !.columns = cr.columns],
                                rows |-> newRows("binary"), err |-> cr.err])
                     ELSE Bind(readUntilEOF(h.w), LAMBDA e1 :
                               [w |-> e1.w, stmt |-> stmt,
                                rows |-> newRows("binary"), err |-> e1.err])
                ELSE [w |-> h.w, stmt |-> stmt, rows |-> newRows("binary"), err |-> "nil"]))

\* readInitPacket not looking at the SSL capability
readInitPacketNoTLSCheck(w) ==
  Bind(readPacket(w), LAMBDA r :
       IF r.err # "nil" THEN [w |-> r.w, err |-> r.err]
       ELSE IF IsERR(r.data) THEN [w |-> r.w, err |-> handleErrorPacket(r.data)]
       ELSE IF r.data.k # "init" \/ r.data.version < minProtocolVersion
       THEN [w |-> r.w, err |-> "ErrProtocolVersion"]
       ELSE LET w1 == [r.w EXCEPT !.c.flags = r.data.caps]
            IN IF "clientProtocol41" \notin w1.c.flags
               THEN [w |-> w1, err |-> "ErrOldProtocol"]
               ELSE [w |-> w1, err |-> "nil"])

(***************************************************************************)
(* Conn.readInitPacket.  The handshake packet is [k |-> "init", version,   *)
(* caps]; of the capability flags only Protocol41 and SSL are looked at.   *)
(***************************************************************************)
readInitPacket(w) ==
  Bind(readPacket(w), LAMBDA r :
       IF r.err # "nil" THEN [w |-> r.w, err |-> r.err]
       ELSE IF IsERR(r.data) THEN [w |-> r.w, err |-> handleErrorPacket(r.data)]
       ELSE IF r.data.k # "init" \/ r.data.version < minProtocolVersion
       THEN [w |-> r.w, err |-> "ErrProtocolVersion"]
       ELSE LET w1 == [r.w EXCEPT !.c.flags = r.data.caps]
            IN IF "clientProtocol41" \notin w1.c.flags
               THEN [w |-> w1, err |-> "ErrOldProtocol"]
               ELSE IF "clientSSL" \notin w1.c.flags /\ w1.cfg.TLS
               THEN [w |-> w1, err |-> "ErrNoTLS"]
               ELSE [w |-> w1, err |-> "nil"])

(***************************************************************************)
(* Conn.writeAuthPacket                                                    *)
(***************************************************************************)
SSLRequestBody == <<"clientFlags", "maxPacketSize", "charset", "filler">>
AuthBody == SSLRequestBody \o <<"User", "NUL", "scrambleBuff", "DBName", "NUL",
                                "mysql_native_password", "NUL">>

writeAuthPacket(w) ==
  IF ~takeBuffer(w) THEN [w |-> w, err |-> "ErrBusyBuffer"]
  ELSE
    Bind(IF w.cfg.TLS
                  THEN Bind(writePacket(w, Payload("sslRequest", LenSSLRequest, SSLRequestBody, <<>>)), LAMBDA sr :
                            IF sr.err # "nil" THEN sr
                            ELSE IF ~w.e.tlsOK THEN [w |-> sr.w, err |-> "tlsError"]
                            ELSE [w |-> [sr.w EXCEPT !.c.tls = TRUE], err |-> "nil"])
                  ELSE [w |-> w, err |-> "nil"], LAMBDA t :
         IF t.err # "nil" THEN t
         ELSE writePacket(t.w, Payload("auth", LenAuth, AuthBody, <<>>)))

(***************************************************************************)
(* Conn.writeOldAuthPacket, Conn.writeClearAuthPacket                      *)
(***************************************************************************)
writeOldAuthPacket(w) ==
  IF ~takeBuffer(w) THEN [w |-> w, err |-> "ErrBusyBuffer"]
  ELSE writePacket(w, Payload("oldAuth", LenOldAuth,
                           <<"scrambleOldPassword", "NUL">>, <<>>))

writeClearAuthPacket(w) ==
  IF ~takeBuffer(w) THEN [w |-> w, err |-> "ErrBusyBuffer"]
  ELSE writePacket(w, Payload("clearAuth", LenClearAuth, <<"Passwd", "NUL">>, <<>>))

\* handleAuthResult retrying whatever the Allow options say
handleAuthResultUngatedClear(w) ==
  Bind(readResultOK(Respond(w)), LAMBDA r :
  LET done == [w |-> r.w, err |-> r.err, retry |-> FALSE]
  IN IF r.err = "nil" \/ r.err \in Fatal \/ r.w.c.cfgNil THEN done
     ELSE IF w.cfg.AllowOldPasswords /\ r.err = "ErrOldPassword"
     THEN Bind(writeOldAuthPacket(r.w), LAMBDA wo :
               [w |-> wo.w, err |-> wo.err, retry |-> wo.err = "nil"])
     ELSE IF r.err = "ErrCleartextPassword"
     THEN Bind(writeClearAuthPacket(r.w), LAMBDA wc :
               [w |-> wc.w, err |-> wc.err, retry |-> wc.err = "nil"])
     ELSE done)

handleAuthResultUngatedOld(w) ==
  Bind(readResultOK(Respond(w)), LAMBDA r :
  LET done == [w |-> r.w, err |-> r.err, retry |-> FALSE]
  IN IF r.err = "nil" \/ r.err \in Fatal \/ r.w.c.cfgNil THEN done
     ELSE IF r.err = "ErrOldPassword"
     THEN Bind(writeOldAuthPacket(r.w), LAMBDA wo :
               [w |-> wo.w, err |-> wo.err, retry |-> wo.err = "nil"])
     ELSE IF w.cfg.AllowCleartextPasswords /\ r.err = "ErrCleartextPassword"
     THEN Bind(writeClearAuthPacket(r.w), LAMBDA wc :
               [w |-> wc.w, err |-> wc.err, retry |-> wc.err = "nil"])
     ELSE done)

(***************************************************************************)
(* Conn.handleAuthResult, up to the Write of the retry packet: retry tells *)
(* whether the answer to a retry packet is awaited.                        *)
(***************************************************************************)
handleAuthResult(w) ==
  Bind(readResultOK(Respond(w)), LAMBDA r :
  LET done == [w |-> r.w, err |-> r.err, retry |-> FALSE]
  IN IF r.err = "nil" THEN done
     ELSE IF r.err \in Fatal THEN done
     ELSE IF r.w.c.cfgNil THEN done
     ELSE IF w.cfg.AllowOldPasswords /\ r.err = "ErrOldPassword"
     THEN Bind(writeOldAuthPacket(r.w), LAMBDA wo :
               [w |-> wo.w, err |-> wo.err, retry |-> wo.err = "nil"])
     ELSE IF w.cfg.AllowCleartextPasswords /\ r.err = "ErrCleartextPassword"
     THEN Bind(writeClearAuthPacket(r.w), LAMBDA wc :
               [w |-> wc.w, err |-> wc.err, retry |-> wc.err = "nil"])
     ELSE done)

\* the result of the retry handled as the result of the handshake response
handleAuthRetryResultRetriesAgain(w) ==
  Bind(readResultOK(Respond(w)), LAMBDA r :
       IF w.cfg.AllowOldPasswords /\ r.err = "ErrOldPassword"
       THEN writeOldAuthPacket(r.w)
       ELSE IF w.cfg.AllowCleartextPasswords /\ r.err = "ErrCleartextPassword"
       THEN writeClearAuthPacket(r.w)
       ELSE r)

(***************************************************************************)
(* Conn.handleAuthResult, after the retry packet                           *)
(***************************************************************************)
handleAuthRetryResult(w) == readResultOK(Respond(w))

\* handleParams giving up at the first charset that fails
handleParamsStepFirstOnly(w) ==
  LET prm == w.cfg.Params[w.c.param]
      after == IF w.c.param < Len(w.cfg.Params) THEN w.c.param + 1 ELSE 0
  IN Bind(exec(w, <<Lit(IF prm[1] = "charset" THEN LenSetNames ELSE LenSetVar)>>), LAMBDA r :
          IF r.err = "nil"
          THEN [w |-> [r.w EXCEPT !.c.param = after, !.c.charset = 0], err |-> "nil"]
          ELSE [w |-> [r.w EXCEPT !.c.param = 0, !.c.charset = 0], err |-> r.err])

(***************************************************************************)
(* Conn.handleParams, one statement at a time.  cfg.Params is given in the *)
(* order the range over the map visits it: <<"charset", n>> for            *)
(* charset=c1,...,cn, <<"var">> for any other parameter.  conn.param and   *)
(* conn.charset are the loop positions: the index of the parameter at      *)
(* hand and, within a charset list, the index i of the charset to try.     *)
(* next is the parameter to go on with, 0 when handleParams returns.       *)
(***************************************************************************)
handleParamsStep(w) ==
  LET prm == w.cfg.Params[w.c.param]
      after == IF w.c.param < Len(w.cfg.Params) THEN w.c.param + 1 ELSE 0
  IN IF prm[1] = "charset"
     THEN Bind(exec(w, <<Lit(LenSetNames)>>), LAMBDA r :
               IF r.err = "nil"
               THEN [w |-> [r.w EXCEPT !.c.param = after, !.c.charset = 0],
                     err |-> "nil"]
               ELSE IF r.err \notin Fatal /\ w.c.charset + 1 < prm[2]
               THEN [w |-> [r.w EXCEPT !.c.charset = @ + 1], err |-> "nil"]
               ELSE [w |-> [r.w EXCEPT !.c.param = 0, !.c.charset = 0], err |-> r.err])
     ELSE Bind(exec(w, <<Lit(LenSetVar)>>), LAMBDA r :
               IF r.err = "nil"
               THEN [w |-> [r.w EXCEPT !.c.param = after], err |-> "nil"]
               ELSE [w |-> [r.w EXCEPT !.c.param = 0], err |-> r.err])

(***************************************************************************)
(* State.                                                                  *)
(*   pc    where Open stands ("new", "readInit", "writeAuth", "authResult",*)
(*         "retryResult", "maxap", "params"), "ready" when Open returned   *)
(*         the connection, "failed" when it returned an error; "panic" and *)
(*         "blocked" end the caller                                        *)
(*   conn  the fields of Conn                                              *)
(*   net   the transport: inq the packets sent by the server and not yet   *)
(*         consumed, busy whether unread bytes sit in the read buffer,     *)
(*         sent the frames handed to netConn.Write by the call (for Open:  *)
(*         the step) last made, closes the number of netConn.Close calls,  *)
(*         retries the number of authentication retries handed to it       *)
(*   cfg   the Config parsed from the DSN                                  *)
(*   stmt  the statement the caller holds, rows the row set it holds       *)
(*   last  the call last made and what it returned: op, err (Next: the     *)
(*         error it recorded), ok (the bool Next returned), res (the       *)
(*         Result of Exec and Stmt.Exec), at (the step                     *)
(*         of Open), struck as in the environment, got the packets read    *)
(*         (of a call on the connection: the first of them)                *)
(*   calls the number of calls made on the connection Open returned        *)
(***************************************************************************)
VARIABLES pc, conn, net, cfg, stmt, rows, last, calls

vars == <<pc, conn, net, cfg, stmt, rows, last, calls>>

ParamLists ==
  {<<>>, <<<<"var">>>>}
  \cup {<<<<"charset", n>>>> : n \in 1..MaxCharsets}
  \cup {<<<<"charset", n>>, <<"var">>>> : n \in 1..MaxCharsets}
  \cup {<<<<"var">>, <<"charset", n>>>> : n \in 1..MaxCharsets}

\* the Configs Open is called with: the options read during authentication
\* and the parameters applied after it are varied one group at a time
Configs ==
  {c \in [AllowOldPasswords : BOOLEAN, AllowCleartextPasswords : BOOLEAN,
          Strict : BOOLEAN, TLS : BOOLEAN, Params : ParamLists] :
     \/ c.Params = <<>>
     \/ ~c.AllowOldPasswords /\ ~c.AllowCleartextPasswords /\ ~c.TLS}

Env0 ==
  [wcredit |-> -1, werr |-> "ioError", resp |-> <<>>, fault |-> "none",
   faultAt |-> 0, reads |-> 0, ra |-> FALSE, junk |-> "ioerr", tlsOK |-> TRUE,
   got |-> <<>>, struck |-> "none"]

\* the world at the start of a call or step: net.sent starts empty
World(e) == [c |-> conn, n |-> [net EXCEPT !.sent = <<>>], e |-> e, cfg |-> cfg]

FaultEnvs(maxReads) ==
  {[fault |-> "none", faultAt |-> 0]}
  \cup [fault : Faults, faultAt : 1..maxReads]

NoLast ==
  [op |-> "none", err |-> "nil", ok |-> FALSE, at |-> "none",
   struck |-> "none", got |-> <<>>, res |-> NoResult]

(***************************************************************************)
(* Open, from ParseDSN's Config on.                                        *)
(***************************************************************************)
InitOpen ==
  /\ pc = "new"
  /\ cfg \in Configs
  /\ conn = [netConn |-> FALSE, cfgNil |-> FALSE, sequence |-> 0,
             maxPacketAllowed |-> maxPacketSize, strict |-> cfg.Strict,
             tls |-> FALSE, flags |-> {}, param |-> 0, charset |-> 0,
             affectedRows |-> 0, insertID |-> 0, status |-> {}]
  /\ net = [inq |-> <<>>, busy |-> FALSE, sent |-> <<>>, closes |-> 0,
            retries |-> 0]
  /\ stmt = NoStmt
  /\ rows = NoRows
  /\ last = NoLast
  /\ calls = 0

\* Open returns err from step at; how says how the connection is torn down
OpenFails(w, err, at, how) ==
  LET w1 == CASE how = "cleanup" -> cleanup(w)
              [] how = "Close" -> Close(w).w
              [] OTHER -> w
  IN /\ pc' = IF err \in Fatal THEN err ELSE "failed"
     /\ conn' = IF err \in Fatal THEN w.c ELSE w1.c
     /\ net' = IF err \in Fatal THEN w.n ELSE w1.n
     /\ last' = [NoLast EXCEPT !.op = "Open", !.err = err, !.at = at,
                               !.struck = w.e.struck, !.got = w.e.got]
     /\ UNCHANGED <<cfg, stmt, rows, calls>>

\* Open goes on to step next after step at
OpenGoes(w, at, next) ==
  /\ pc' = next
  /\ conn' = w.c
  /\ net' = w.n
  /\ last' = [NoLast EXCEPT !.op = "Open", !.at = at, !.got = w.e.got]
  /\ UNCHANGED <<cfg, stmt, rows, calls>>

\* Open, lines 50-86: the dial and the keep-alive
OpenDial ==
  /\ pc = "new"
  /\ \E outcome \in {"ok", "dialError", "keepAliveError"} :
       LET w == World(Env0)
       IN CASE outcome = "ok" ->
                 OpenGoes([w EXCEPT !.c.netConn = TRUE], "dial", "readInit")
            [] outcome = "dialError" ->
                 OpenFails(w, "dialError", "dial", "none")
            [] OTHER ->
                 OpenFails([w EXCEPT !.n.closes = @ + 1], "keepAliveError",
                           "keepAlive", "none")

InitPackets ==
  {[k |-> "init", version |-> 10, caps |-> {"clientProtocol41", "clientSSL"}],
   [k |-> "init", version |-> 10, caps |-> {"clientProtocol41"}],
   [k |-> "init", version |-> 10, caps |-> {"clientSSL"}],
   [k |-> "init", version |-> 10, caps |-> {}],
   [k |-> "init", version |-> 9, caps |-> {"clientProtocol41", "clientSSL"}],
   [k |-> "init", version |-> 9, caps |-> {}],
   [k |-> "err"]}

\* Open, lines 88-93
OpenReadInit ==
  /\ pc = "readInit"
  /\ \E ip \in InitPackets, f \in FaultEnvs(1), wc \in {0, -1} :
       LET e == [Env0 EXCEPT !.resp = <<<<ip>>>>, !.fault = f.fault,
                             !.faultAt = f.faultAt, !.wcredit = wc]
       IN \E r \in {readInitPacket(Respond(World(e)))} :
          IF r.err # "nil" THEN OpenFails(r.w, r.err, "readInit", "cleanup")
          ELSE OpenGoes(r.w, "readInit", "writeAuth")

\* Open, lines 95-99
OpenWriteAuth ==
  /\ pc = "writeAuth"
  /\ \E wc \in {0, 1, -1}, we \in WErrs, tok \in BOOLEAN :
       LET e == [Env0 EXCEPT !.wcredit = wc, !.werr = we, !.tlsOK = tok]
       IN \E r \in {writeAuthPacket(World(e))} :
          IF r.err # "nil" THEN OpenFails(r.w, r.err, "writeAuth", "cleanup")
          ELSE OpenGoes(r.w, "writeAuth", "authResult")

AuthReplies ==
  {OKZero, OKWarn, [k |-> "err"], [k |-> "eof1"],
   [k |-> "authSwitch", plugin |-> "mysql_old_password", nul |-> TRUE],
   [k |-> "authSwitch", plugin |-> "mysql_clear_password", nul |-> TRUE],
   [k |-> "authSwitch", plugin |-> "sha256_password", nul |-> TRUE],
   [k |-> "authSwitch", plugin |-> "sha256_password", nul |-> FALSE]}

\* Open, lines 101-108, and handleAuthResult up to the retry packet
OpenAuthResult ==
  /\ pc = "authResult"
  /\ \E a \in AuthReplies, f \in FaultEnvs(1), wc \in {0, -1}, we \in WErrs :
       LET e == [Env0 EXCEPT !.resp = <<<<a>>>>,
                             !.fault = f.fault, !.faultAt = f.faultAt,
                             !.wcredit = wc, !.werr = we]
       IN \E r \in {handleAuthResult(World(e))} :
          IF r.err # "nil" THEN OpenFails(r.w, r.err, "authResult", "cleanup")
          ELSE IF r.retry THEN OpenGoes(r.w, "authResult", "retryResult")
          ELSE OpenGoes(r.w, "authResult", "maxap")

\* Open, lines 101-108, and handleAuthResult after the retry packet
OpenRetryResult ==
  /\ pc = "retryResult"
  /\ \E a \in AuthReplies, f \in FaultEnvs(1), wc \in {0, -1} :
       LET e == [Env0 EXCEPT !.resp = <<<<a>>>>,
                             !.fault = f.fault, !.faultAt = f.faultAt,
                             !.wcredit = wc]
       IN \E r \in {handleAuthRetryResult(World(e))} :
          IF r.err # "nil" THEN OpenFails(r.w, r.err, "retryResult", "cleanup")
          ELSE OpenGoes(r.w, "retryResult", "maxap")

\* what the server answers to SELECT @@max_allowed_packet
MaxAPAnswers ==
  {<<[k |-> "hdr", n |-> 1], [k |-> "col"], [k |-> "eof"],
     [k |-> "row", val |-> v], [k |-> "eof"]>> : v \in MaxAPValues}
  \cup {<<[k |-> "hdr", n |-> 1], [k |-> "col"], [k |-> "eof"], [k |-> "eof"]>>,
        <<[k |-> "err"]>>}

\* Open, lines 110-119
OpenMaxAP ==
  /\ pc = "maxap"
  /\ \E a \in MaxAPAnswers, f \in FaultEnvs(5), wc \in {0, 1, -1}, ra \in BOOLEAN :
       LET e == [Env0 EXCEPT !.resp = <<a>>, !.fault = f.fault,
                             !.faultAt = f.faultAt, !.wcredit = wc, !.ra = ra]
       IN \E r \in {getSystemVar(World(e))} :
          IF r.err # "nil" THEN OpenFails(r.w, r.err, "maxap", "Close")
          ELSE OpenGoes([r.w EXCEPT !.c.maxPacketAllowed = r.val - 1,
                                    !.c.param = IF cfg.Params = <<>> THEN 0 ELSE 1],
                        "maxap", "params")

\* what the server answers to a SET statement
SetAnswers == {<<OKZero>>, <<OKWarn>>, <<[k |-> "err"]>>}

\* Open, lines 121-128, and the loops of handleParams
OpenParams ==
  /\ pc = "params"
  /\ IF conn.param = 0
     THEN OpenGoes(World(Env0), "params", "ready")
     ELSE \E a \in SetAnswers, f \in FaultEnvs(1), wc \in {0, 1, -1}, we \in WErrs :
            LET e == [Env0 EXCEPT !.resp = <<a>>, !.fault = f.fault,
                                  !.faultAt = f.faultAt, !.wcredit = wc,
                                  !.werr = we]
            IN \E r \in {handleParamsStep(World(e))} :
               IF r.err # "nil" THEN OpenFails(r.w, r.err, "params", "Close")
               ELSE OpenGoes(r.w, "params", "params")

NextOpen ==
  \/ OpenDial
  \/ OpenReadInit
  \/ OpenWriteAuth
  \/ OpenAuthResult
  \/ OpenRetryResult
  \/ OpenMaxAP
  \/ OpenParams

SpecOpen == InitOpen /\ [][NextOpen]_vars

(***************************************************************************)
(* The command phase: the caller holds the Conn Open returned, at most one *)
(* statement and at most one row set, and makes one API call at a time.    *)
(***************************************************************************)
\* the Conn as Open returns it to a caller that asked for no parameters:
\* the answer to SELECT @@max_allowed_packet was its last exchange
Init ==
  /\ pc = "ready"
  /\ cfg \in {c \in Configs : c.Params = <<>> /\ ~c.TLS /\ ~c.AllowOldPasswords
                               /\ ~c.AllowCleartextPasswords}
  /\ \E v \in MaxAPValues :
       conn = [netConn |-> TRUE, cfgNil |-> FALSE, sequence |-> 6,
               maxPacketAllowed |-> v - 1, strict |-> cfg.Strict,
               tls |-> FALSE, flags |-> {"clientProtocol41", "clientSSL"},
               param |-> 0, charset |-> 0,
               affectedRows |-> 0, insertID |-> 0, status |-> {}]
  /\ net = [inq |-> <<>>, busy |-> FALSE, sent |-> <<>>, closes |-> 0,
            retries |-> 0]
  /\ stmt = NoStmt
  /\ rows = NoRows
  /\ last = [NoLast EXCEPT !.op = "Open", !.at = "params"]
  /\ calls = 0

\* the calls that send a command to the server
CmdOps == {"Exec", "Query", "Prepare", "StmtExec", "StmtQuery", "StmtClose"}

\* the first packet of those a call read
First(got) == IF got = <<>> THEN <<>> ELSE <<got[1]>>

\* the call op returns err (Next: the bool ok, err being rows.err) and,
\* Exec and Stmt.Exec, the Result res
Returns(op, w, err, ok, res) ==
  /\ pc' = IF err \in Fatal THEN err ELSE "ready"
  /\ conn' = w.c
  /\ net' = w.n
  /\ last' = [op |-> op, err |-> err, ok |-> ok, at |-> "none",
              struck |-> w.e.struck, got |-> First(w.e.got), res |-> res]
  /\ calls' = calls + 1
  /\ UNCHANGED cfg

\* the transport faults a call that reads up to n packets can meet on a
\* stream that is framed as the server framed it; a sequence byte one too
\* high comes with the payload read ahead, one too low without
ReadEnvs(n) ==
  {[Env0 EXCEPT !.ra = ra] : ra \in BOOLEAN}
  \cup {[Env0 EXCEPT !.fault = f, !.faultAt = i, !.ra = f = "seqHi"] :
          f \in Faults, i \in 1..n}

\* what a read can meet on a misframed stream
MisframedEnvs == {[Env0 EXCEPT !.junk = j, !.ra = j = "sync"] : j \in JunkKinds}

\* the command is not taken by the transport
WriteFailEnvs == {[Env0 EXCEPT !.wcredit = 0, !.werr = we] : we \in WErrs}

\* n packets of kind k
Rep(k, n) == [i \in 1..n |-> [k |-> k]]

\* a result set of n columns and m rows of kind rk, ended by an end packet
ResultSets(rk) ==
  {<<[k |-> "hdr", n |-> n]>> \o Rep("col", n) \o <<[k |-> "eof"]>>
     \o Rep(rk, m) \o <<[k |-> end]>> :
     n \in 1..MaxCols, m \in 0..MaxRows, end \in {"eof", "err"}}

NoResultSet ==
  {<<OKPkt("ok", v)>> : v \in OKValues} \cup {<<OKWarn>>, <<[k |-> "err"]>>}

\* what the server answers to COM_QUERY and to COM_STMT_EXECUTE
QueryAnswers == NoResultSet \cup ResultSets("row")
ExecuteAnswers == NoResultSet \cup ResultSets("brow")

\* the OK packet of a COM_STMT_PREPARE response
PrepOK(id, np, nc, wn) ==
  [k |-> "prepOK", id |-> id, params |-> np, cols |-> nc, warn |-> wn]

\* what the server answers to COM_STMT_PREPARE
PrepareAnswers ==
  {<<[k |-> "err"]>>}
  \cup {<<PrepOK(1, np, nc, wn)>>
          \o (IF np > 0 THEN Rep("col", np) \o <<[k |-> "eof"]>> ELSE <<>>)
          \o (IF nc > 0 THEN Rep("col", nc) \o <<[k |-> "eof"]>> ELSE <<>>) :
          np \in 0..1, nc \in 0..MaxCols, wn \in BOOLEAN}

\* the environments of a call the server answers by a
AnswerEnvs(a, reads) ==
  {[e EXCEPT !.resp = <<a>>] : e \in ReadEnvs(reads)}

\* the queries the caller makes: without arguments, and with an argument
\* but no placeholder for it
Queries ==
  {[query |-> <<Lit(l)>>, args |-> a] :
     l \in QueryLens, a \in {<<>>, <<NilArg>>}}

\* the caller may make a call; it may send a command
MayCall == pc = "ready" /\ calls < MaxCalls
Ready == MayCall /\ Len(net.inq) <= MaxPending

\* the packets of the answer a that Query and Stmt.Query read themselves
HeadReads(a) == IF Len(a) = 1 THEN 1 ELSE a[1].n + 2

ExecEnvs ==
  UNION {AnswerEnvs(a, Len(a)) : a \in QueryAnswers} \cup WriteFailEnvs
QueryEnvs ==
  UNION {AnswerEnvs(a, HeadReads(a)) : a \in QueryAnswers} \cup WriteFailEnvs
PrepareEnvs ==
  UNION {AnswerEnvs(a, Len(a)) : a \in PrepareAnswers} \cup WriteFailEnvs
StmtExecEnvs ==
  UNION {AnswerEnvs(a, Len(a)) : a \in ExecuteAnswers} \cup WriteFailEnvs
StmtQueryEnvs ==
  UNION {AnswerEnvs(a, HeadReads(a)) : a \in ExecuteAnswers} \cup WriteFailEnvs

(***************************************************************************)
(* The environments a call is tried in are those that make a difference in *)
(* the state it is made in.  refused: the call returns before it writes    *)
(* (wrong number of arguments).  A command on a closed connection, with    *)
(* the buffer busy or with a packet limit below every command returns      *)
(* before it touches the transport; on a stream with unread packets its    *)
(* first read meets one of those, whatever the server answers.             *)
(***************************************************************************)
CmdEnvs(refused, envs) ==
  IF refused \/ ~conn.netConn \/ net.busy
     \/ conn.maxPacketAllowed < LenStmtClose
  THEN {Env0}
  ELSE IF Misframed(net.inq) THEN MisframedEnvs \cup WriteFailEnvs
  ELSE IF net.inq # <<>>
  THEN AnswerEnvs(<<OKZero>>, 1) \cup WriteFailEnvs
  ELSE envs

\* a call that reads up to n packets and writes none of its own
ReadCallEnvs(n) ==
  IF ~conn.netConn \/ ~rows.conn THEN {Env0}
  ELSE IF Misframed(net.inq) THEN MisframedEnvs
  ELSE ReadEnvs(n)

CallExec ==
  /\ Ready
  /\ \E q \in Queries : \E e \in CmdEnvs(Len(q.args) # Placeholders(q.query), ExecEnvs) :
       \E r \in {Exec(World(e), q)} :
          Returns("Exec", r.w, r.err, FALSE, r.res)
  /\ UNCHANGED <<stmt, rows>>

\* the caller keeps the row set of a Query that returned no error
CallQuery ==
  /\ Ready
  /\ \E q \in Queries : \E e \in CmdEnvs(Len(q.args) # Placeholders(q.query), QueryEnvs) :
       \E r \in {Query(World(e), q)} :
          /\ Returns("Query", r.w, r.err, FALSE, NoResult)
          /\ rows' = IF r.err = "nil" THEN r.rows ELSE rows
  /\ UNCHANGED stmt

\* the caller keeps the statement of a Prepare that returned no error
CallPrepare ==
  /\ Ready
  /\ \E l \in QueryLens, e \in CmdEnvs(FALSE, PrepareEnvs) :
       \E r \in {Prepare(World(e), <<Lit(l)>>)} :
          /\ Returns("Prepare", r.w, r.err, FALSE, NoResult)
          /\ stmt' = IF r.err = "nil" THEN r.stmt ELSE stmt
  /\ UNCHANGED rows

\* n integer arguments
IntArgs(n) == [i \in 1..n |-> IntArg(1)]

CallStmtExec ==
  /\ Ready
  /\ stmt.exists
  /\ \E nargs \in {0, 1} :
     \E e \in CmdEnvs(~stmt.conn \/ nargs # stmt.paramCount, StmtExecEnvs) :
       \E r \in {stmtExec(World(e), stmt, IntArgs(nargs))} :
          Returns("StmtExec", r.w, r.err, FALSE, r.res)
  /\ UNCHANGED <<stmt, rows>>

CallStmtQuery ==
  /\ Ready
  /\ stmt.exists
  /\ \E nargs \in {0, 1} :
     \E e \in CmdEnvs(~stmt.conn \/ nargs # stmt.paramCount, StmtQueryEnvs) :
       \E r \in {stmtQuery(World(e), stmt, IntArgs(nargs))} :
          /\ Returns("StmtQuery", r.w, r.err, FALSE, NoResult)
          /\ stmt' = r.stmt
          /\ rows' = IF r.err = "nil" THEN r.rows ELSE rows

CallStmtClose ==
  /\ Ready
  /\ stmt.exists
  /\ \E e \in CmdEnvs(~stmt.conn, {Env0} \cup WriteFailEnvs) :
       \E r \in {stmtClose(World(e), stmt)} :
          /\ Returns("StmtClose", r.w, r.err, FALSE, NoResult)
          /\ stmt' = r.stmt
  /\ UNCHANGED rows

CallNext ==
  /\ MayCall
  /\ rows.kind # "none"
  /\ \E e \in ReadCallEnvs(1) :
       \E r \in {rowsNext(World(e), rows)} :
          /\ Returns("Next", r.w, IF r.fatal # "nil" THEN r.fatal ELSE r.rows.err,
                     r.ok, NoResult)
          /\ rows' = r.rows
  /\ UNCHANGED stmt

CallRowsClose ==
  /\ MayCall
  /\ rows.kind # "none"
  /\ \E e \in ReadCallEnvs(MaxRows + 1) :
       \E r \in {rowsClose(World(e), rows)} :
          /\ Returns("RowsClose", r.w, r.err, FALSE, NoResult)
          /\ rows' = r.rows
  /\ UNCHANGED stmt

CallClose ==
  /\ MayCall
  /\ \E e \in {Env0} \cup WriteFailEnvs :
       \E r \in {Close(World(e))} :
          Returns("Close", r.w, r.err, FALSE, NoResult)
  /\ UNCHANGED <<stmt, rows>>

Next ==
  \/ CallExec
  \/ CallQuery
  \/ CallPrepare
  \/ CallStmtExec
  \/ CallStmtQuery
  \/ CallStmtClose
  \/ CallNext
  \/ CallRowsClose
  \/ CallClose

Spec == Init /\ [][Next]_vars

(***************************************************************************)
(* Properties of the command phase.  A step of Spec is one API call: the   *)
(* unprimed variables are the state the call is made in, the primed ones   *)
(* the state it returns in, last'.op the call.                             *)
(***************************************************************************)
SyncErrs == {"ErrPktSync", "ErrPktSyncMul"}

\* the calls the server answers
AnsweredOps == CmdOps \ {"StmtClose"}

\* the caller holds a row set that is neither closed nor read to its end:
\* packets of it, up to the terminating EOF or ERR, are unread
RowsOpen ==
  /\ rows.kind \in {"text", "binary"}
  /\ rows.conn
  /\ net.inq # <<>> /\ ~Misframed(net.inq)

\* C1: while a row set is neither closed nor drained, a call to Exec, Query,
\* Prepare, Stmt.Exec, Stmt.Query or Stmt.Close writes no command packet.
C1_NoCommandWhileRowsOpen ==
  [][RowsOpen /\ last'.op \in CmdOps => net'.sent = <<>>]_vars

\* C2: on a closed connection Exec, Query and Prepare, Exec, Query and Close
\* of a statement, and Next and Close of an unfinished row set report
\* ErrInvalidConn (Next: false, the error recorded) and write nothing.
C2_ClosedConnRefuses ==
  [][~conn.netConn =>
       /\ last'.op \in CmdOps
            => last'.err = "ErrInvalidConn" /\ net'.sent = <<>>
       /\ last'.op \in {"Next", "RowsClose"} /\ rows.kind # "empty" /\ rows.conn
            => last'.err = "ErrInvalidConn" /\ ~last'.ok /\ net'.sent = <<>>]_vars

\* C3 as stated: the first Close sends one COM_QUIT and closes the
\* transport; a second Close returns nil, sends nothing and closes nothing.
C3_AsStated ==
  [][last'.op = "Close" =>
       IF conn.netConn
       THEN /\ Len(net'.sent) = 1 /\ net'.sent[1].k = "comQuit"
            /\ ~conn'.netConn /\ net'.closes = net.closes + 1
       ELSE /\ last'.err = "nil" /\ net'.sent = <<>>
            /\ net'.closes = net.closes]_vars

\* C3: Close on an open connection closes the transport exactly once and
\* hands at most one packet to it, a COM_QUIT with sequence 0: none when the
\* buffer holds unread bytes (ErrBusyBuffer) or the packet limit is below
\* one byte (ErrPktTooLarge), else one, Close returning nil exactly when the
\* transport took it.  Close on a closed connection returns nil, sends
\* nothing and closes nothing.
C3_CloseIdempotent ==
  [][last'.op = "Close" =>
       /\ ~conn'.netConn
       /\ IF conn.netConn
          THEN /\ net'.closes = net.closes + 1
               /\ IF net.busy
                  THEN net'.sent = <<>> /\ last'.err = "ErrBusyBuffer"
                  ELSE IF LenQuit > conn.maxPacketAllowed
                  THEN net'.sent = <<>> /\ last'.err = "ErrPktTooLarge"
                  ELSE /\ Len(net'.sent) = 1
                       /\ net'.sent[1].k = "comQuit" /\ net'.sent[1].seq = 0
                       /\ net'.sent[1].ok <=> last'.err = "nil"
          ELSE /\ last'.err = "nil" /\ net'.sent = <<>>
               /\ net'.closes = net.closes]_vars

\* C3 witness: Close has returned nil on a connection closed before, nothing
\* sent, the transport closed once
C3_Witness ==
  /\ last.op = "Close" /\ last.err = "nil"
  /\ net.sent = <<>>
  /\ ~conn.netConn /\ net.closes = 1
  /\ calls >= 2

\* C4: a call that returns ErrPktSync or ErrPktSyncMul has closed the
\* connection.
C4_SyncErrorCloses ==
  last.err \in SyncErrs => ~conn.netConn /\ net.closes = 1

\* C5: when reading the header or the payload of a packet failed, or the
\* header declared a length below 1, the call returns with the transport
\* closed, once, and netConn nil; it returns the transport's error, and
\* ErrMalformPkt for the declared length.
C5_ReadFailureTearsDown ==
  last.struck \in {"ioerr", "trunc", "short"}
    => /\ ~conn.netConn /\ net.closes = 1
       /\ last.struck = "short" => last.err = "ErrMalformPkt"
       /\ last.struck \in {"ioerr", "trunc"} => last.err = "ioError"

\* C5 witness: a header declaring the length 0 was read
C5_Witness ==
  /\ last.struck = "short" /\ last.err = "ErrMalformPkt"
  /\ ~conn.netConn /\ net.closes = 1

\* C6: a command whose packet the transport did not take whole returns with
\* the connection closed.
C6_WriteFailureCloses ==
  last.op \in CmdOps /\ (\E i \in 1..Len(net.sent) : ~net.sent[i].ok)
    => ~conn.netConn

\* the call last made sent its command, met no transport fault and read an
\* ERR packet as the first packet of the answer
ErrAnswered ==
  /\ last.op \in AnsweredOps
  /\ Len(net.sent) = 1 /\ net.sent[1].ok
  /\ last.struck = "none"
  /\ last.got # <<>> /\ IsERR(last.got[1])

\* C7: a command answered by an ERR packet returns the server's error with
\* the transport open and never closed; the command that follows is handed
\* to the transport with sequence 0 and, when the transport delivers what
\* the server sent, the first packet of its answer is read with sequence 1,
\* no sync error being returned.
C7_ServerErrorKeepsConn ==
  [][/\ ErrAnswered' => /\ last'.err = "ServerError"
                        /\ conn'.netConn /\ net'.closes = 0
     /\ ErrAnswered /\ last'.op \in CmdOps
          => /\ \A i \in 1..Len(net'.sent) : net'.sent[i].seq = 0
             /\ last'.struck = "none"
                  => /\ last'.err \notin SyncErrs
                     /\ last'.got # <<>> => last'.got[1].seq = 1]_vars

\* C7 witness: the second command in a row is answered by an ERR packet
C7_Witness ==
  /\ ErrAnswered /\ last.err = "ServerError"
  /\ net.sent[1].seq = 0 /\ last.got[1].seq = 1
  /\ conn.netConn /\ net.closes = 0
  /\ calls >= 2

(***************************************************************************)
(* Properties of Open.                                                     *)
(***************************************************************************)
Range(f) == {f[i] : i \in DOMAIN f}

\* the packet handleAuthResult read as the answer to the handshake response
AuthAnswer ==
  IF last.op = "Open" /\ last.at = "authResult" /\ last.got # <<>>
  THEN last.got[1] ELSE NoPkt

\* the packet read as the answer to the retry packet
RetryAnswer ==
  IF last.op = "Open" /\ last.at = "retryResult" /\ last.got # <<>>
  THEN last.got[1] ELSE NoPkt

\* p is an auth-switch request naming plugin
IsSwitchTo(p, plugin) == p.k = "authSwitch" /\ p.nul /\ p.plugin = plugin

\* the frames of net.sent that carry a retry of the authentication
RetryFrames == {i \in 1..Len(net.sent) : net.sent[i].k \in AuthRetries}

\* C8: a frame carrying the password itself is handed to the transport only
\* in answer to an auth-switch request naming mysql_clear_password and with
\* AllowCleartextPasswords set; with the option unset that request makes Open
\* fail with ErrCleartextPassword, nothing having been written.
C8_CleartextOnlyWhenAllowed ==
  /\ \A i \in 1..Len(net.sent) :
       "Passwd" \in Range(net.sent[i].body)
         => /\ cfg.AllowCleartextPasswords
            /\ IsSwitchTo(AuthAnswer, "mysql_clear_password")
  /\ IsSwitchTo(AuthAnswer, "mysql_clear_password") /\ ~cfg.AllowCleartextPasswords
       => pc = "failed" /\ last.err = "ErrCleartextPassword" /\ net.sent = <<>>

\* C8 witness: the cleartext password went out after the switch request
C8_Witness ==
  /\ pc = "retryResult"
  /\ IsSwitchTo(AuthAnswer, "mysql_clear_password")
  /\ cfg.AllowCleartextPasswords
  /\ Len(net.sent) = 1 /\ net.sent[1].k = "clearAuth" /\ net.sent[1].ok

\* C9: on an auth-switch request naming mysql_old_password Open, with
\* AllowOldPasswords unset, fails with ErrOldPassword having sent nothing;
\* with it set, exactly one packet, the scrambled old password followed by a
\* 0 byte, is handed to the transport and Open goes on to read the result,
\* which an OK makes a success and an ERR a failure with the server's error,
\* no further authentication packet being sent.
C9_OldPasswordSwitch ==
  /\ IsSwitchTo(AuthAnswer, "mysql_old_password") /\ ~cfg.AllowOldPasswords
       => pc = "failed" /\ last.err = "ErrOldPassword" /\ net.sent = <<>>
  /\ IsSwitchTo(AuthAnswer, "mysql_old_password") /\ cfg.AllowOldPasswords
       => /\ Len(net.sent) = 1
          /\ net.sent[1].k = "oldAuth"
          /\ net.sent[1].body = <<"scrambleOldPassword", "NUL">>
          /\ net.sent[1].ok => pc = "retryResult"
          /\ ~net.sent[1].ok => pc = "failed"
  /\ last.op = "Open" /\ last.at = "retryResult"
       => /\ RetryFrames = {}
          /\ RetryAnswer.k = "ok" => pc = "maxap"
          /\ RetryAnswer.k = "err" => pc = "failed" /\ last.err = "ServerError"

\* C9 witness: the old-password packet went out and the result is awaited
C9_Witness ==
  /\ pc = "retryResult"
  /\ IsSwitchTo(AuthAnswer, "mysql_old_password")
  /\ cfg.AllowOldPasswords
  /\ Len(net.sent) = 1 /\ net.sent[1].k = "oldAuth" /\ net.sent[1].ok

C11_OneAuthSwitch ==
  /\ net.retries <= 1
  /\ Cardinality(RetryFrames) <= 1
  /\ net.retries = 1 => cfg.AllowOldPasswords \/ cfg.AllowCleartextPasswords
  /\ IsEOFByte(RetryAnswer)
       => /\ net.sent = <<>>
          /\ pc \in {"failed", "panic"}
          /\ RetryAnswer.k = "eof1" \/ RetryAnswer.nul
               => /\ pc = "failed"
                  /\ last.err \in {"ErrOldPassword", "ErrCleartextPassword",
                                   "ErrUnknownPlugin"}

\* C11 witness: the retry with the cleartext password was answered by
\* another request for the cleartext password, and Open failed
C11_Witness ==
  /\ pc = "failed" /\ last.err = "ErrCleartextPassword"
  /\ IsSwitchTo(RetryAnswer, "mysql_clear_password")
  /\ cfg.AllowCleartextPasswords
  /\ net.retries = 1 /\ net.sent = <<>>

\* the handshake packet readInitPacket read
InitAnswer ==
  IF last.op = "Open" /\ last.at = "readInit" /\ last.got # <<>>
  THEN last.got[1] ELSE NoPkt

\* the errors that match what is wrong with the initial packet p
InitErrs(p) ==
  (IF IsERR(p) THEN {"ServerError"} ELSE {})
  \cup (IF p.k = "init" /\ p.version < minProtocolVersion
        THEN {"ErrProtocolVersion"} ELSE {})
  \cup (IF p.k = "init" /\ "clientProtocol41" \notin p.caps
        THEN {"ErrOldProtocol"} ELSE {})
  \cup (IF p.k = "init" /\ "clientSSL" \notin p.caps /\ cfg.TLS
        THEN {"ErrNoTLS"} ELSE {})

\* C12: when the initial packet is an ERR packet, announces a version below
\* 10, lacks Protocol41, or lacks SSL with TLS configured, Open fails with
\* an error matching what is wrong, the transport closed; up to there no
\* packet at all, so neither handshake response nor SSL request, was handed
\* to the transport.
C12_BadInitPacketFails ==
  /\ last.op = "Open" /\ last.at \in {"dial", "keepAlive", "readInit"}
       => \A i \in 1..Len(net.sent) : net.sent[i].k \notin {"auth", "sslRequest"}
  /\ InitErrs(InitAnswer) # {}
       => /\ pc = "failed" /\ last.err \in InitErrs(InitAnswer)
          /\ net.sent = <<>>
          /\ ~conn.netConn /\ net.closes = 1

\* C12 witness: TLS is configured and the server does not offer SSL
C12_Witness ==
  /\ pc = "failed" /\ last.err = "ErrNoTLS"
  /\ cfg.TLS
  /\ InitAnswer.k = "init" /\ InitAnswer.caps = {"clientProtocol41"}
  /\ net.sent = <<>>

\* C13: with TLS configured every frame handed to the transport before the
\* TLS handshake has succeeded is the SSL request.
C13_OnlySSLRequestInClear ==
  cfg.TLS => \A i \in 1..Len(net.sent) :
               ~net.sent[i].tls => net.sent[i].k = "sslRequest"

\* the step of Open tries charset number conn.charset of the list at hand
AtCharset ==
  /\ pc = "params" /\ conn.param # 0
  /\ cfg.Params[conn.param][1] = "charset"

\* the packets the step read, "none" when it read none
GotFirst == IF last.got = <<>> THEN NoPkt ELSE last.got[1]

\* C14 as stated: an OK packet for SET NAMES ends the list, no later charset
\* being tried, and Open fails at the list only when the last of the listed
\* charsets was answered, like those before, by an ERR packet.
C14_AsStated ==
  [][AtCharset /\ last'.struck = "none"
     /\ Len(net'.sent) >= 1 /\ net'.sent[1].k = "comQuery" /\ net'.sent[1].ok
       => /\ IsOK(GotFirst') => pc' = "params" /\ conn'.charset = 0
                                /\ conn'.param # conn.param
          /\ pc' = "failed" => IsERR(GotFirst')
                               /\ conn.charset + 1 = cfg.Params[conn.param][2]]_vars

\* C14: the listed charsets are tried in list order, one SET NAMES at a
\* time: the step for charset i either ends the list, no later charset being
\* tried - so it does on an OK packet, in strict mode on an OK packet without
\* warnings - or goes on to charset i+1, or is the last of Open; Open returns
\* an error from the list only at its last charset, with the transport
\* closed.
C14_CharsetList ==
  [][AtCharset =>
       /\ \A i \in 1..Len(net'.sent) :
            net'.sent[i].k = "comQuery" => i = 1 /\ net'.sent[i].seq = 0
       /\ pc' = "params"
            => \/ conn'.param # conn.param /\ conn'.charset = 0
               \/ /\ conn'.param = conn.param
                  /\ conn'.charset = conn.charset + 1
                  /\ conn'.charset < cfg.Params[conn.param][2]
                  /\ ~(GotFirst'.k = "ok" /\ last'.struck = "none")
       /\ GotFirst'.k = "ok" \/ (GotFirst'.k = "okw" /\ ~cfg.Strict)
            => pc' = "params" /\ conn'.param # conn.param /\ conn'.charset = 0
       /\ pc' = "failed"
            => /\ conn.charset + 1 = cfg.Params[conn.param][2]
               /\ last'.err # "nil"
               /\ ~conn'.netConn]_vars

\* C14 witness: the first charset was refused by an ERR packet and the
\* second is the one to try
C14_Witness ==
  /\ pc = "params" /\ last.at = "params"
  /\ conn.param # 0 /\ cfg.Params[conn.param][1] = "charset"
  /\ conn.charset = 1
  /\ IsERR(GotFirst)

(***************************************************************************)
(* Properties of the command phase: warnings, row sets.                    *)
(***************************************************************************)
\* the call last made sent its command, met no transport fault and read a
\* packet of kind k as the first packet of the answer
Answered(k) ==
  /\ last.op \in AnsweredOps
  /\ Len(net.sent) >= 1 /\ net.sent[1].ok
  /\ last.struck = "none"
  /\ last.got # <<>> /\ last.got[1].k = k

\* C15: in strict mode a command answered by an OK packet with a warning
\* count above 0 sends SHOW WARNINGS as a second COM_QUERY and returns a
\* Warnings error.
C15_StrictWarnings ==
  conn.strict /\ Answered("okw")
    => /\ Len(net.sent) = 2 /\ net.sent[2].k = "comQuery"
       /\ last.err = "Warnings"

\* C16: a Warnings error is returned only in strict mode and only for an OK
\* packet with a warning count above 0; with strict off, or with a warning
\* count of 0, the command answered by the OK packet returns no error and
\* its command packet is the only packet sent.
C16_WarningsOnlyWhenStrict ==
  /\ last.err = "Warnings" => conn.strict /\ Answered("okw")
  /\ Answered("ok") \/ (Answered("okw") /\ ~conn.strict)
       => /\ pc = "ready" /\ last.err = "nil"
          /\ Len(net.sent) = 1
          /\ net.sent[1].k \in {"comQuery", "comStmtExecute"}

\* C16 witness: with strict off Exec was answered by an OK packet that
\* reports warnings
C16_Witness ==
  /\ ~conn.strict /\ Answered("okw")
  /\ last.op = "Exec" /\ last.err = "nil"
  /\ Len(net.sent) = 1

\* C17: a successful Exec or Stmt.Exec hands back the affected-rows and
\* insert-id values of the OK packet that answered it, and 0 for both when a
\* result set answered it, whatever earlier commands have latched.
C17_ResultOfThisCommand ==
  pc = "ready" /\ last.op \in {"Exec", "StmtExec"} /\ last.err = "nil"
    => /\ last.got # <<>>
       /\ last.got[1].k \in {"ok", "okw", "hdr"}
       /\ last.got[1].k \in {"ok", "okw"}
            => last.res = Result(last.got[1].ar, last.got[1].id)
       /\ last.got[1].k = "hdr" => last.res = Result(0, 0)

\* C17 witness: Exec answered by a result set hands back 0 and 0 after an
\* earlier command
C17_Witness ==
  /\ pc = "ready" /\ last.op = "Exec" /\ last.err = "nil"
  /\ last.got # <<>> /\ last.got[1].k = "hdr"
  /\ last.res = Result(0, 0)
  /\ calls >= 2

\* Query has returned the row set of an answer that was an OK packet
QueryGotOK ==
  /\ last.op = "Query" /\ last.err = "nil"
  /\ last.got # <<>> /\ IsOK(last.got[1])

\* C18: Query answered by an OK packet leaves nothing unread on the
\* transport and the buffer free; Next on the row set it returned reports
\* false without reading a packet, so it returns, and the command made next
\* is not refused for a busy buffer: it is sent with sequence 0 and, the
\* transport delivering the answer, meets no sync error.
C18_EmptyRowsNeverRead ==
  [][/\ QueryGotOK' => /\ conn'.netConn /\ net'.inq = <<>> /\ ~net'.busy
                       /\ rows'.kind # "none"
     /\ (QueryGotOK \/ rows.kind = "empty") /\ last'.op = "Next"
          => /\ ~last'.ok /\ pc' = "ready"
             /\ last'.got = <<>> /\ last'.struck = "none"
             /\ net'.inq = net.inq /\ conn' = conn
     /\ QueryGotOK /\ last'.op \in AnsweredOps
          => /\ net'.sent = <<>> => last'.err # "ErrBusyBuffer"
             /\ net'.sent # <<>>
                  => /\ net'.sent[1].seq = 0
                     /\ net'.sent[1].k \in {"comQuery", "comStmtPrepare",
                                           "comStmtExecute"}
                     /\ net'.sent[1].ok /\ last'.struck = "none"
                          => last'.err \notin SyncErrs]_vars

\* C18 witness: Next has returned false on the row set of a Query that an OK
\* packet answered, nothing read
C18_Witness ==
  /\ rows.kind = "empty"
  /\ last.op = "Next" /\ ~last.ok /\ last.got = <<>>
  /\ pc = "ready" /\ conn.netConn /\ net.inq = <<>>

\* C19: Next returns true only when it fetched a row: no error is recorded
\* and the row is there to scan.
C19_NextTrueOnlyOnRow ==
  pc = "ready" /\ last.op = "Next" /\ last.ok
    => last.err = "nil" /\ rows.data

\* the row set the caller holds has unread packets: the call last made, a
\* Query that returned it or a Next on it, returned no error and left
\* packets of the answer, the next of them the one the connection expects
RowsPending ==
  /\ RowsOpen
  /\ last.op \in {"Query", "StmtQuery", "Next"} /\ last.err = "nil"
  /\ Head(net.inq).seq = conn.sequence

\* C20: Close of a row set with unread packets, the transport delivering
\* them, reads them all and returns nil with the connection open and free
\* for the next command; a further Close of the row set reads nothing and
\* returns nil.
C20_RowsCloseDrains ==
  [][last'.op = "RowsClose" =>
       /\ RowsPending /\ last'.struck = "none"
            => /\ pc' = "ready" /\ last'.err = "nil"
               /\ conn'.netConn /\ net'.closes = net.closes
               /\ net'.inq = <<>> /\ ~net'.busy
               /\ ~rows'.conn
       /\ rows.kind \in {"text", "binary"} /\ ~rows.conn
            => /\ pc' = "ready" /\ last'.err = "nil"
               /\ last'.got = <<>> /\ net'.inq = net.inq]_vars

(***************************************************************************)
(* Commands with arguments: the caller of the command phase, on a healthy  *)
(* transport, passing arguments to Exec and Query.  last keeps the query   *)
(* and the arguments of the call, and the status flags of the OK packet    *)
(* the connection received last: okStatus, and before for what they were   *)
(* when the call was made.                                                 *)
(***************************************************************************)
\* values the server reports for @@max_allowed_packet
ArgMaxAPValues == {4, 9, 15, 91, 16777216, 33554432}

\* the status flags an OK packet of the server carries
StatusValues == {{}, {statusNoBackslashEscapes}}

ArgTexts ==
  {<<Lit(8)>>, <<Lit(8), Ph>>, <<Lit(8), Ph, Lit(3)>>, <<Ph, Ph>>,
   <<Lit(maxPacketSize)>>}

ArgLists ==
  {<<>>, <<NilArg>>, <<IntArg(42)>>, <<IntArg(-7), NilArg>>,
   <<StringArg(<<97, 39, 92>>)>>, <<BytesArg(<<39>>)>>, <<NilBytesArg>>,
   <<OtherArg>>}

ArgQueries == [query : ArgTexts, args : ArgLists]

\* a value of n bytes
Blob(n) == [i \in 1..n |-> 64 + i]

\* the arguments of Stmt.Exec and Stmt.Query
StmtArgLists ==
  {<<>>, <<IntArg(42)>>, <<NilBytesArg>>, <<StringArg(<<>>)>>,
   <<StringArg(Blob(3))>>, <<StringArg(Blob(8))>>, <<BytesArg(Blob(12))>>,
   <<BytesArg(Blob(14)), IntArg(3)>>, <<StringArg(Blob(3)), BytesArg(Blob(70))>>,
   <<NilArg, StringArg(Blob(1))>>, <<OtherArg, StringArg(Blob(8))>>}

ArgStmtIDs == {1, 258}

\* the answers to COM_STMT_PREPARE: no result columns, np parameters
ArgPrepareAnswers ==
  {<<[k |-> "err"]>>}
  \cup {<<PrepOK(id, np, 0, FALSE)>> \o Rep("col", np) \o <<[k |-> "eof"]>> :
          id \in ArgStmtIDs, np \in 1..2}

\* the answers to a query that carry no result set
ArgAnswers ==
  {<<[OKZero EXCEPT !.status = s]>> : s \in StatusValues}
  \cup {<<[k |-> "err"]>>}

InitArgs ==
  /\ pc = "ready"
  /\ cfg \in {c \in Configs : c.Params = <<>> /\ ~c.TLS /\ ~c.AllowOldPasswords
                               /\ ~c.AllowCleartextPasswords /\ ~c.Strict}
  /\ \E v \in ArgMaxAPValues, s \in StatusValues :
       /\ conn = [netConn |-> TRUE, cfgNil |-> FALSE, sequence |-> 6,
                  maxPacketAllowed |-> v - 1, strict |-> cfg.Strict,
                  tls |-> FALSE, flags |-> {"clientProtocol41", "clientSSL"},
                  param |-> 0, charset |-> 0,
                  affectedRows |-> 0, insertID |-> 0, status |-> s]
       /\ last = [op |-> "Open", err |-> "nil", got |-> <<>>, res |-> NoResult,
                  query |-> <<>>, args |-> <<>>, before |-> s,
                  okStatus |-> s]
  /\ net = [inq |-> <<>>, busy |-> FALSE, sent |-> <<>>, closes |-> 0,
            retries |-> 0]
  /\ stmt = NoStmt
  /\ rows = NoRows
  /\ calls = 0

\* the status flags of the last OK packet among got, dflt without one
RECURSIVE LastStatus(_, _)
LastStatus(got, dflt) ==
  IF got = <<>> THEN dflt
  ELSE IF got[Len(got)].k \in {"ok", "okw"} THEN got[Len(got)].status
  ELSE LastStatus(SubSeq(got, 1, Len(got) - 1), dflt)

\* the call op of q returns err and res
ArgReturns(op, q, w, err, res) ==
  /\ pc' = IF err \in Fatal THEN err ELSE "ready"
  /\ conn' = w.c
  /\ net' = w.n
  /\ last' = [op |-> op, err |-> err, got |-> w.e.got, res |-> res,
              query |-> q.query, args |-> q.args, before |-> last.okStatus,
              okStatus |-> LastStatus(w.e.got, last.okStatus)]
  /\ calls' = calls + 1
  /\ UNCHANGED cfg

ArgsMayCall == pc = "ready" /\ calls < MaxArgCalls

ArgsExec ==
  /\ ArgsMayCall
  /\ \E q \in ArgQueries, a \in ArgAnswers :
       \E r \in {Exec(World([Env0 EXCEPT !.resp = <<a>>]), q)} :
          ArgReturns("Exec", q, r.w, r.err, r.res)
  /\ UNCHANGED <<stmt, rows>>

\* the caller closes the row set of a Query at once: it is an empty one
ArgsQuery ==
  /\ ArgsMayCall
  /\ \E q \in ArgQueries, a \in ArgAnswers :
       \E r \in {Query(World([Env0 EXCEPT !.resp = <<a>>]), q)} :
          ArgReturns("Query", q, r.w, r.err, NoResult)
  /\ UNCHANGED <<stmt, rows>>

ArgsClose ==
  /\ ArgsMayCall
  /\ \E r \in {Close(World(Env0))} :
       ArgReturns("Close", PlainQuery(0), r.w, r.err, NoResult)
  /\ UNCHANGED <<stmt, rows>>

ArgsPrepare ==
  /\ ArgsMayCall
  /\ \E t \in ArgTexts, a \in ArgPrepareAnswers :
       \E r \in {Prepare(World([Env0 EXCEPT !.resp = <<a>>]), t)} :
          /\ ArgReturns("Prepare", [query |-> t, args |-> <<>>], r.w, r.err, NoResult)
          /\ stmt' = IF r.err = "nil" THEN r.stmt ELSE stmt
  /\ UNCHANGED rows

ArgsStmtExec ==
  /\ ArgsMayCall
  /\ stmt.exists
  /\ \E args \in StmtArgLists, a \in ArgAnswers :
       \E r \in {stmtExec(World([Env0 EXCEPT !.resp = <<a>>]), stmt, args)} :
          ArgReturns("StmtExec", [query |-> <<>>, args |-> args], r.w, r.err, r.res)
  /\ UNCHANGED <<stmt, rows>>

\* the caller closes the row set of a Stmt.Query at once: it is an empty one
ArgsStmtQuery ==
  /\ ArgsMayCall
  /\ stmt.exists
  /\ \E args \in StmtArgLists, a \in ArgAnswers :
       \E r \in {stmtQuery(World([Env0 EXCEPT !.resp = <<a>>]), stmt, args)} :
          /\ ArgReturns("StmtQuery", [query |-> <<>>, args |-> args], r.w, r.err, NoResult)
          /\ stmt' = r.stmt
  /\ UNCHANGED rows

ArgsStmtClose ==
  /\ ArgsMayCall
  /\ stmt.exists
  /\ \E r \in {stmtClose(World(Env0), stmt)} :
       /\ ArgReturns("StmtClose", PlainQuery(0), r.w, r.err, NoResult)
       /\ stmt' = r.stmt
  /\ UNCHANGED rows

NextArgs ==
  \/ ArgsExec
  \/ ArgsQuery
  \/ ArgsClose
  \/ ArgsPrepare
  \/ ArgsStmtExec
  \/ ArgsStmtQuery
  \/ ArgsStmtClose

SpecArgs == InitArgs /\ [][NextArgs]_vars

\* C21: whenever Exec or Query is called with arguments whose number
\* differs from the number of '?' of the query, be it more arguments or
\* more placeholders, and the call does not fail before for another reason,
\* it returns ErrInterpolateFailed and no query is sent
C21_CountMismatchFails ==
  [][/\ last'.op \in {"Exec", "Query"}
     /\ conn.netConn
     /\ Len(last'.args) # 0
     /\ Len(last'.args) # Placeholders(last'.query)
     /\ last'.err \notin {"ErrUnsafeInterpolate", "ErrPktTooLarge"}
     => last'.err = "ErrInterpolateFailed" /\ net'.sent = <<>>]_vars

\* the query with every '?' replaced by what its argument is written as
RECURSIVE Substituted(_, _, _)
Substituted(w, query, args) ==
  IF query = <<>> THEN <<>>
  ELSE IF Head(query).k # "ph"
  THEN <<Head(query)>> \o Substituted(w, Tail(query), args)
  ELSE (IF Head(args).t = "nil" THEN <<Piece("NULL", <<78, 85, 76, 76>>)>>
        ELSE interpolated(w, Head(args)))
       \o Substituted(w, Tail(query), Tail(args))

\* the call just made passed one argument of a supported type for every '?'
Interpolates ==
  /\ last'.op \in {"Exec", "Query"}
  /\ conn.netConn
  /\ Len(last'.args) # 0
  /\ Len(last'.args) = Placeholders(last'.query)
  /\ \A i \in DOMAIN last'.args : last'.args[i].t # "other"

\* C22: when the interpolated text of an Exec or Query with arguments plus
\* the 4 bytes of the header is longer than the maximum packet size, be it
\* through the text after the last placeholder or through a NULL argument,
\* the call returns ErrPktTooLarge and nothing is written
C22_OversizeTextRefused ==
  [][/\ Interpolates
     /\ TextLen(Substituted([c |-> conn], last'.query, last'.args)) + 4
          > conn.maxPacketAllowed
     => last'.err = "ErrPktTooLarge" /\ net'.sent = <<>>]_vars

\* the position in the query of its i-th '?'
PhIndex(query, i) ==
  CHOOSE j \in DOMAIN query :
    query[j].k = "ph" /\ Placeholders(SubSeq(query, 1, j)) = i

\* C23: the string and blob arguments of an Exec or Query are written with
\* the single quotes doubled exactly when the OK packet the connection
\* received last had NO_BACKSLASH_ESCAPES among its status flags, and with
\* the backslash escapes otherwise, the OK packet of one command ruling the
\* interpolation of the next
C23_EscapeFollowsLastOK ==
  [][Interpolates /\ net'.sent # <<>>
     => \A i \in DOMAIN last'.args :
          LET arg == last'.args[i]
              piece == net'.sent[1].text[PhIndex(last'.query, i)]
              text == IF statusNoBackslashEscapes \in last.okStatus
                      THEN escapeBytesQuotes(arg.v)
                      ELSE escapeBytesBackslash(arg.v)
          IN /\ arg.t = "string" => piece.s = <<39>> \o text \o <<39>>
             /\ arg.t = "bytes"
                  => piece.s = <<95, 98, 105, 110, 97, 114, 121, 39>>
                                 \o text \o <<39>>]_vars

\* a second call wrote its string with the quotes doubled, as the OK packet
\* before it asked, while its own OK packet withdrew the flag
C23_Witness ==
  /\ calls >= 2
  /\ last.op \in {"Exec", "Query"} /\ last.err = "nil"
  /\ last.before = {statusNoBackslashEscapes} /\ last.okStatus = {}
  /\ net.sent # <<>>
  /\ \E i \in DOMAIN net.sent[1].text :
       net.sent[1].text[i] = Piece("str", <<39, 97, 39, 39, 92, 39>>)

(***************************************************************************)
(* The framing pair: two Conns joined by an in-memory transport, conn.wr   *)
(* writing packets with writePacket and conn.rd reading them back with     *)
(* readPacket, turn by turn.  net.wr and net.rd are their transports, the  *)
(* frames Write took whole arriving in net.rd.inq.  last keeps the call    *)
(* just made: its error, the payload written (data) and the one read back  *)
(* (read).                                                                 *)
(***************************************************************************)
\* sequence numbers the two sides start from
FrameSeqs == {0, 1, 254, 255}

\* payload lengths written: none, small ones, and around the frame limit
FrameLens ==
  {0, 1, 20, maxPacketSize - 1, maxPacketSize, maxPacketSize + 1,
   2 * maxPacketSize}

\* conn.maxPacketAllowed of the writing side: as Open sets it first, and as
\* a server that allows 15 bytes or 64 MiB makes it
FrameMaxAPs == {14, maxPacketSize, 67108863}

FramePayloads == {Payload("data", n, <<"data">>, <<>>) : n \in FrameLens}

InitFrame ==
  /\ pc = "write"
  /\ cfg \in {c \in Configs : c.Params = <<>> /\ ~c.TLS /\ ~c.AllowOldPasswords
                               /\ ~c.AllowCleartextPasswords /\ ~c.Strict}
  /\ \E sw \in FrameSeqs, sr \in FrameSeqs, v \in FrameMaxAPs :
       LET c == [netConn |-> TRUE, cfgNil |-> FALSE, sequence |-> sw,
                 maxPacketAllowed |-> v, strict |-> FALSE,
                 tls |-> FALSE, flags |-> {"clientProtocol41"},
                 param |-> 0, charset |-> 0,
                 affectedRows |-> 0, insertID |-> 0, status |-> {}]
       IN conn = [wr |-> c, rd |-> [c EXCEPT !.sequence = sr]]
  /\ net = [wr |-> [inq |-> <<>>, busy |-> FALSE, sent |-> <<>>, closes |-> 0,
                    retries |-> 0],
            rd |-> [inq |-> <<>>, busy |-> FALSE, sent |-> <<>>, closes |-> 0,
                    retries |-> 0]]
  /\ last = [op |-> "none", err |-> "nil", data |-> Payload("none", 0, <<>>, <<>>),
             read |-> NoPkt]
  /\ stmt = NoStmt
  /\ rows = NoRows
  /\ calls = 0

\* the frames of sent that reached the other side
Delivered(sent) == SelectSeq(sent, LAMBDA f : f.ok)

\* conn.wr.writePacket(data); the reader's turn comes when it returned nil
FrameWrite ==
  /\ pc = "write" /\ calls < MaxFrameCalls
  /\ \E data \in FramePayloads :
       \E r \in {writePacket([c |-> conn.wr, n |-> [net.wr EXCEPT !.sent = <<>>],
                              e |-> Env0, cfg |-> cfg], data)} :
          /\ conn' = [conn EXCEPT !.wr = r.w.c]
          /\ net' = [net EXCEPT !.wr = r.w.n,
                                !.rd.inq = @ \o Delivered(r.w.n.sent)]
          /\ last' = [op |-> "writePacket", err |-> r.err, data |-> data,
                      read |-> NoPkt]
          /\ pc' = IF r.err = "nil" THEN "read" ELSE "write"
  /\ calls' = calls + 1
  /\ UNCHANGED <<cfg, stmt, rows>>

\* conn.rd.readPacket()
FrameRead ==
  /\ pc = "read"
  /\ \E r \in {readPacket([c |-> conn.rd, n |-> [net.rd EXCEPT !.sent = <<>>],
                           e |-> Env0, cfg |-> cfg])} :
       /\ conn' = [conn EXCEPT !.rd = r.w.c]
       /\ net' = [net EXCEPT !.rd = r.w.n]
       /\ last' = [op |-> "readPacket", err |-> r.err, data |-> last.data,
                   read |-> r.data]
       /\ pc' = IF r.err = "nil" THEN "write" ELSE "stopped"
  /\ UNCHANGED <<cfg, stmt, rows, calls>>

NextFrame ==
  \/ FrameWrite
  \/ FrameRead

SpecFrame == InitFrame /\ [][NextFrame]_vars

\* C24: writePacket refuses a payload longer than the maximum packet size
\* with ErrPktTooLarge, no frame having been handed to the transport and
\* the sequence number being what it was
C24_TooLargeRefusedUntouched ==
  [][last'.op = "writePacket" /\ last'.data.len > conn.wr.maxPacketAllowed
     => /\ last'.err = "ErrPktTooLarge"
        /\ net'.wr.sent = <<>>
        /\ net'.rd.inq = net.rd.inq
        /\ conn'.wr.sequence = conn.wr.sequence]_vars

\* a payload of more than one frame was refused on a connection whose
\* sequence number was not 0
C24_Witness ==
  /\ last.op = "writePacket" /\ last.err = "ErrPktTooLarge"
  /\ last.data.len = 2 * maxPacketSize
  /\ conn.wr.sequence = 255

\* the step is the read of the packet just written, the reader expecting the
\* sequence number of its first frame
ReadsBack ==
  /\ last.op = "writePacket" /\ last'.op = "readPacket"
  /\ Head(net.rd.inq).seq = conn.rd.sequence

\* the payload written was read back, the reader's sequence number being
\* advanced by frames
ReadBackAfter(frames) ==
  /\ last'.err = "nil"
  /\ last'.read.k = last.data.k /\ last'.read.body = last.data.body
  /\ last'.read.bytes = Span(0, last.data.len)
  /\ conn'.rd.sequence = (conn.rd.sequence + frames) % SeqMod
  /\ net'.rd.inq = <<>>

\* writePacket wrote the payload as one frame, advancing the sequence
\* number by one
WroteOneFrame ==
  /\ last'.err = "nil"
  /\ Len(net'.wr.sent) = 1
  /\ net'.wr.sent[1].seq = conn.wr.sequence
  /\ net'.wr.sent[1].bytes = Span(0, last'.data.len)
  /\ conn'.wr.sequence = (conn.wr.sequence + 1) % SeqMod

C26_MultipleOfLimitRoundTrip ==
  [][/\ last'.op = "writePacket" /\ last'.data.len % maxPacketSize = 0
        /\ last'.data.len <= conn.wr.maxPacketAllowed
          => LET full == last'.data.len \div maxPacketSize
             IN /\ last'.err = "nil"
                /\ Len(net'.wr.sent) = full + 1
                /\ \A i \in 1..full :
                     net'.wr.sent[i].bytes
                       = Span((i - 1) * maxPacketSize, maxPacketSize)
                /\ net'.wr.sent[full + 1].bytes = <<>>
     /\ ReadsBack /\ last.data.len % maxPacketSize = 0
          => ReadBackAfter(last.data.len \div maxPacketSize + 1)]_vars

\* the sequence byte and the length of the frame at the head of the
\* reader's transport
HeadSeq == Head(net.rd.inq).seq
HeadLen == SpanLen(Head(net.rd.inq).bytes)

\* readPacket refused the frame as out of sequence, the Conn as it was
RefusedOutOfSync ==
  /\ last'.err = IF HeadSeq > conn.rd.sequence THEN "ErrPktSyncMul"
                 ELSE "ErrPktSync"
  /\ last'.read = NoPkt
  /\ conn'.rd = conn.rd

\* C28 as stated: readPacket accepts a frame only when its sequence byte is
\* the expected sequence number, which it then advances by one (for every
\* frame of the packet), 255 being followed by 0; any frame with another sequence byte is refused with
\* ErrPktSyncMul when the byte is above the expected number and ErrPktSync
\* otherwise, without payload and with the expected number unchanged
C28_AsStated ==
  [][last'.op = "readPacket"
     => /\ last'.err = "nil" => HeadSeq = conn.rd.sequence
        /\ last'.err = "nil"
             => conn'.rd.sequence
                  = (conn.rd.sequence + Len(net.rd.inq)) % SeqMod
        /\ HeadSeq # conn.rd.sequence => RefusedOutOfSync]_vars

\* C28: the same for every frame that declares a length of 1 or more; a
\* frame that declares the length 0 is refused with ErrMalformPkt and the
\* connection closed, whatever its sequence byte
C28_SequenceCheck ==
  [][last'.op = "readPacket"
     => /\ last'.err = "nil" => HeadSeq = conn.rd.sequence
        /\ last'.err = "nil"
             => conn'.rd.sequence
                  = (conn.rd.sequence + Len(net.rd.inq)) % SeqMod
        /\ HeadSeq # conn.rd.sequence /\ HeadLen >= 1 => RefusedOutOfSync
        /\ HeadLen < 1
             => /\ last'.err = "ErrMalformPkt" /\ last'.read = NoPkt
                /\ ~conn'.rd.netConn]_vars

\* a frame numbered 255 was refused with ErrPktSyncMul by a reader that
\* expected 254 and still does
C28_Witness ==
  /\ last.op = "readPacket" /\ last.err = "ErrPktSyncMul"
  /\ last.data.len >= 1
  /\ conn.wr.sequence = 0 /\ conn.rd.sequence = 254
  /\ conn.rd.netConn


(***************************************************************************)
(* Parameters sent ahead of COM_STMT_EXECUTE.                              *)
(***************************************************************************)
\* the bytes of field k of text t, none when t has no such field
RECURSIVE Field(_, _)
Field(t, k) ==
  IF t = <<>> THEN <<>>
  ELSE IF t[1].k = k THEN t[1].s
  ELSE Field(Tail(t), k)

IsChunk(f) == f.k = "comStmtSendLongData"

\* the data of the chunks of parameter i among the frames sent, in order
RECURSIVE ChunkData(_, _)
ChunkData(sent, i) ==
  IF sent = <<>> THEN <<>>
  ELSE (IF IsChunk(sent[1]) /\ Field(sent[1].text, "paramID") = uint16Bytes(i)
        THEN Field(sent[1].text, "data") ELSE <<>>) \o ChunkData(Tail(sent), i)

\* the parameters from index i on that do not fit the packet budget, vlen
\* bytes of values being in the packet already
RECURSIVE LongParams(_, _, _, _)
LongParams(maxPA, args, i, vlen) ==
  IF i >= Len(args) \/ args[i + 1].t = "other" THEN {}
  ELSE
    LET a == args[i + 1]
        pos == minPktLen + (Len(args) + 7) \div 8 + 1 + 2 * Len(args)
    IN IF a.t = "int64" THEN LongParams(maxPA, args, i + 1, vlen + 8)
       ELSE IF a.t \notin {"string", "bytes"} THEN LongParams(maxPA, args, i + 1, vlen)
       ELSE IF Len(a.v) < maxPA - pos - vlen - (Len(args) - (i + 1)) * 64
       THEN LongParams(maxPA, args, i + 1,
                       vlen + lengthEncodedIntegerLen(Len(a.v)) + Len(a.v))
       ELSE {i} \cup LongParams(maxPA, args, i + 1, vlen)

\* a step that is Stmt.Exec or Stmt.Query building its execute packet
BuildsExecute ==
  /\ last'.op \in {"StmtExec", "StmtQuery"}
  /\ stmt.conn /\ conn.netConn
  /\ Len(last'.args) = stmt.paramCount

\* the chunks sent are those of the long parameters, whole and in order
ChunksCarry(long) ==
  /\ \A n \in 1..Len(net'.sent) :
       IsChunk(net'.sent[n]) =>
         /\ Field(net'.sent[n].text, "id") = uint32Bytes(stmt.id)
         /\ \E i \in long : Field(net'.sent[n].text, "paramID") = uint16Bytes(i)
         /\ SpanLen(net'.sent[n].bytes) <= conn.maxPacketAllowed
         /\ \A m \in 1..n : net'.sent[m].k # "comStmtExecute"
  /\ \A i \in long : ChunkData(net'.sent, i) = last'.args[i + 1].v

\* C27: a string or blob parameter of Stmt.Exec/Stmt.Query that does not
\* fit the remaining packet budget is sent as COM_STMT_SEND_LONG_DATA chunks
\* before the COM_STMT_EXECUTE packet: every chunk carries the statement id
\* and the parameter's index, no chunk exceeds the maximum packet size, and
\* the chunk data in send order is the parameter value.
C27_LongDataAhead ==
  [][BuildsExecute =>
       ChunksCarry(LongParams(conn.maxPacketAllowed, last'.args, 0, 0))]_vars


(***************************************************************************)
(* The sequence number of commands.                                        *)
(***************************************************************************)
Commands ==
  {"comQuit", "comQuery", "comStmtPrepare", "comStmtClose", "comStmtExecute",
   "comStmtSendLongData"}

\* frame f starts a packet
IsFirstFrame(f) == f.bytes = <<>> \/ f.bytes[1].off = 0

\* C29: the first frame of every command packet (COM_QUIT, COM_QUERY,
\* COM_STMT_PREPARE, COM_STMT_CLOSE, COM_STMT_EXECUTE) and of every
\* COM_STMT_SEND_LONG_DATA chunk is written with sequence number 0, whatever
\* the sequence number was before, a COM_STMT_EXECUTE that follows long-data
\* chunks included.
C29_CommandsStartAtZero ==
  \A n \in 1..Len(net.sent) :
    (net.sent[n].k \in Commands /\ IsFirstFrame(net.sent[n])) => net.sent[n].seq = 0

\* a COM_STMT_EXECUTE written with sequence 0 after two chunks
C29_Witness ==
  /\ last.op = "StmtExec" /\ last.err = "nil"
  /\ Len(net.sent) >= 3
  /\ IsChunk(net.sent[1]) /\ IsChunk(net.sent[2])
  /\ net.sent[Len(net.sent)].k = "comStmtExecute"
  /\ net.sent[Len(net.sent)].seq = 0
  /\ conn.sequence # 0


(***************************************************************************)
(* The sequence number between commands.                                   *)
(***************************************************************************)
\* no command is under way: the last call has returned, its response is
\* read to the end and no row set is open
OutsideCommand == pc = "ready" /\ net.inq = <<>> /\ rows = NoRows

\* C30 as stated: outside command boundaries, after Open has returned and
\* whenever the full response of the last command has been read and no row
\* set is open, the connection's sequence number is 0.
C30_AsStated == OutsideCommand => conn.sequence = 0

\* the frames of the last packet among sent
RECURSIVE PacketFrames(_)
PacketFrames(sent) ==
  IF sent = <<>> THEN 0
  ELSE IF IsFirstFrame(sent[Len(sent)]) THEN 1
  ELSE 1 + PacketFrames(SubSeq(sent, 1, Len(sent) - 1))

\* C30: the sequence number is set to 0 when a command is sent, not when
\* its response has been read: once a call has sent its command and read the
\* response, the sequence number is the number of frames of that command
\* packet and of the response, modulo 256, until the next command is sent.
C30_SequenceCountsFrames ==
  [][(OutsideCommand' /\ net'.sent # <<>> /\ (last'.err = "nil" \/ last'.got # <<>>))
       => conn'.sequence = (PacketFrames(net'.sent) + Len(last'.got)) % SeqMod]_vars

\* Exec has read the OK packet that answers its COM_QUERY
C30_Witness ==
  /\ OutsideCommand
  /\ last.op = "Exec" /\ last.err = "nil"
  /\ Len(net.sent) = 1 /\ Len(last.got) = 1
  /\ conn.sequence = 2


(***************************************************************************)
(* The response of COM_STMT_PREPARE.                                       *)
(***************************************************************************)
\* a step in which Prepare, called with nothing unread on the transport,
\* has read the prepare-OK packet, met no transport fault and returned
\* with the connection open
PrepareAnswered ==
  /\ last'.op = "Prepare" /\ pc' = "ready"
  /\ net.inq = <<>>
  /\ last'.got # <<>> /\ last'.got[1].k = "prepOK"
  /\ last'.struck = "none"
  /\ conn'.netConn

\* C31: Prepare consumes the complete COM_STMT_PREPARE response: after the
\* prepare-OK packet it drains the parameter definitions through their EOF
\* and the column definitions through their EOF, so that whenever it returns
\* with the connection still open no packet of that response is left unread.
C31_PrepareDrains ==
  [][PrepareAnswered => net'.inq = <<>>]_vars


(***************************************************************************)
(* The column definitions of a statement.                                  *)
(***************************************************************************)
\* a step in which Stmt.Query, called with nothing unread on the transport,
\* returns the row set of a result set, no transport fault met
StmtQueryResultSet ==
  /\ last'.op = "StmtQuery" /\ last'.err = "nil"
  /\ net.inq = <<>>
  /\ last'.got # <<>> /\ last'.got[1].k = "hdr"
  /\ last'.struck = "none"

\* what is unread are the row packets and the packet that ends them
RowsOnly(inq) ==
  /\ inq # <<>>
  /\ \A i \in 1..(Len(inq) - 1) : inq[i].k = "brow"
  /\ inq[Len(inq)].k \in {"eof", "err"}

\* C32: the first Stmt.Query that returns a result set caches the column
\* definitions on the statement; every later Stmt.Query on the statement
\* uses the cached ones and still consumes the column-definition packets up
\* to and including their EOF: in both cases the first packet Next reads is
\* the first row packet.
C32_ColumnsCachedAndConsumed ==
  [][StmtQueryResultSet =>
       /\ stmt'.columns
       /\ RowsOnly(net'.inq)
       /\ rows'.kind = "binary" /\ rows'.conn]_vars

\* the second Stmt.Query of a statement has returned a row set: after
\* Prepare, Stmt.Query and the end of its row set
C32_Witness ==
  /\ calls = MaxCalls
  /\ last.op = "StmtQuery" /\ last.err = "nil"
  /\ last.got # <<>> /\ last.got[1].k = "hdr"
  /\ stmt.columns /\ stmt.conn
  /\ rows.kind = "binary"
  /\ Len(net.inq) >= 2 /\ RowsOnly(net.inq)


(***************************************************************************)
(* Binary rows.  The server's side: a row of the binary protocol is the    *)
(* byte 0x00, the NULL bitmap and the values of the columns that are not   *)
(* NULL.  nulls holds the indexes, from 0, of the NULL columns.            *)
(***************************************************************************)
Col(t, u) == [fieldType |-> t, unsigned |-> u]

RECURSIVE BitmapByte(_, _, _)
BitmapByte(nulls, b, j) ==
  IF j > 7 THEN 0
  ELSE (IF (8 * b + j - 2) \in nulls THEN 2 ^ j ELSE 0) + BitmapByte(nulls, b, j + 1)

NullBitmap(n, nulls) ==
  [b \in 1..((n + 7 + 2) \div 8) |-> BitmapByte(nulls, b - 1, 0)]

EncodeValue(col, v) ==
  CASE col.fieldType = "fieldTypeTiny" -> <<v % 256>>
    [] col.fieldType = "fieldTypeShort" -> <<v % 256, (v \div 256) % 256>>
    [] OTHER -> <<>>

RECURSIVE EncodeValues(_, _, _, _)
EncodeValues(columns, nulls, vals, i) ==
  IF i >= Len(columns) THEN <<>>
  ELSE (IF i \in nulls THEN <<>> ELSE EncodeValue(columns[i + 1], vals[i + 1]))
       \o EncodeValues(columns, nulls, vals, i + 1)

BinaryRow(columns, nulls, vals) ==
  <<0>> \o NullBitmap(Len(columns), nulls) \o EncodeValues(columns, nulls, vals, 0)

(***************************************************************************)
(* binaryRows.readRow on a row packet, and binaryRows.convert.             *)
(***************************************************************************)
NilValue == [null |-> TRUE, v |-> 0]
Value(v) == [null |-> FALSE, v |-> v]

binaryRowData(br, data) ==
  LET pos == 1 + (Len(br.columns) + 7 + 2) \div 8
  IN [br EXCEPT !.nullMask = SubSeq(data, 2, pos), !.data = data]

int8(b) == IF b >= 128 THEN b - 256 ELSE b
int16(b) == IF b >= 32768 THEN b - 65536 ELSE b

\* the columns from i on, the values being read from offset pos of data
RECURSIVE convertFrom(_, _, _, _)
convertFrom(br, i, pos, dest) ==
  IF i >= Len(br.columns) THEN [dest |-> dest, err |-> "nil"]
  ELSE IF (br.nullMask[(i + 2) \div 8 + 1] \div 2 ^ ((i + 2) % 8)) % 2 = 1
  THEN convertFrom(br, i + 1, pos, Append(dest, NilValue))
  ELSE
    LET col == br.columns[i + 1]
        data == br.data
    IN CASE col.fieldType = "fieldTypeNULL" ->
              convertFrom(br, i + 1, pos, Append(dest, NilValue))
         [] col.fieldType = "fieldTypeTiny" ->
              IF pos + 1 > Len(data) THEN [dest |-> dest, err |-> "panic"]
              ELSE convertFrom(br, i + 1, pos + 1,
                     Append(dest, Value(IF col.unsigned THEN data[pos + 1]
                                        ELSE int8(data[pos + 1]))))
         [] col.fieldType = "fieldTypeShort" ->
              IF pos + 2 > Len(data) THEN [dest |-> dest, err |-> "panic"]
              ELSE convertFrom(br, i + 1, pos + 2,
                     Append(dest, Value(
                       LET u == data[pos + 1] + 256 * data[pos + 2]
                       IN IF col.unsigned THEN u ELSE int16(u))))
         [] OTHER -> [dest |-> dest, err |-> "UnknownFieldType"]

binaryConvert(br) == convertFrom(br, 0, 0, <<>>)

(***************************************************************************)
(* One binary row: the server sends it, Next reads it, Scan converts it.   *)
(***************************************************************************)
RowColumns ==
  {<<Col("fieldTypeTiny", FALSE)>>,
   <<Col("fieldTypeTiny", TRUE), Col("fieldTypeShort", FALSE)>>,
   <<Col("fieldTypeNULL", FALSE), Col("fieldTypeShort", TRUE)>>,
   <<Col("fieldTypeShort", FALSE), Col("fieldTypeTiny", FALSE),
     Col("fieldTypeTiny", TRUE)>>,
   [i \in 1..MaxBitmapCols |-> Col("fieldTypeTiny", TRUE)]}

\* the values a column of the row can hold
ColumnValues(columns, i) ==
  IF Len(columns) > 3 THEN {200 + i}
  ELSE CASE columns[i].fieldType = "fieldTypeNULL" -> {0}
         [] columns[i].fieldType = "fieldTypeTiny" /\ columns[i].unsigned -> {7, 200}
         [] columns[i].fieldType = "fieldTypeTiny" -> {-1, 5}
         [] columns[i].unsigned -> {258, 65535}
         [] OTHER -> {-2, 258}

\* the values of the columns from i on
RECURSIVE ValueLists(_, _)
ValueLists(columns, i) ==
  IF i > Len(columns) THEN {<<>>}
  ELSE {<<v>> \o t : v \in ColumnValues(columns, i), t \in ValueLists(columns, i + 1)}

RowInputs ==
  UNION {{[columns |-> cs, nulls |-> ns, vals |-> vs] :
            ns \in SUBSET (0..(Len(cs) - 1)), vs \in ValueLists(cs, 1)} :
         cs \in RowColumns}

InitRow ==
  /\ pc = "packet"
  /\ cfg \in {c \in Configs : c.Params = <<>> /\ ~c.TLS /\ ~c.AllowOldPasswords
                               /\ ~c.AllowCleartextPasswords /\ ~c.Strict}
  /\ conn = [netConn |-> TRUE, cfgNil |-> FALSE, sequence |-> 4,
             maxPacketAllowed |-> maxPacketSize, strict |-> FALSE,
             tls |-> FALSE, flags |-> {"clientProtocol41"},
             param |-> 0, charset |-> 0,
             affectedRows |-> 0, insertID |-> 0, status |-> {}]
  /\ \E inp \in RowInputs :
       /\ net = [inq |-> <<BinaryRow(inp.columns, inp.nulls, inp.vals)>>]
       /\ rows = [columns |-> inp.columns, nullMask |-> <<>>, data |-> <<>>]
       /\ last = [op |-> "Query", columns |-> inp.columns, nulls |-> inp.nulls,
                  vals |-> inp.vals, dest |-> <<>>, err |-> "nil"]
  /\ stmt = NoStmt
  /\ calls = 0

\* Next: readRow on the row packet
RowNext ==
  /\ pc = "packet"
  /\ rows' = binaryRowData(rows, Head(net.inq))
  /\ net' = [net EXCEPT !.inq = Tail(@)]
  /\ last' = [last EXCEPT !.op = "Next"]
  /\ pc' = "row"
  /\ calls' = calls + 1
  /\ UNCHANGED <<conn, cfg, stmt>>

\* Scan with as many destinations as the row has columns
RowScan ==
  /\ pc = "row"
  /\ \E r \in {binaryConvert(rows)} :
       /\ last' = [last EXCEPT !.op = "Scan", !.dest = r.dest, !.err = r.err]
       /\ pc' = IF r.err \in Fatal THEN r.err ELSE "scanned"
  /\ rows' = [rows EXCEPT !.data = <<>>]
  /\ calls' = calls + 1
  /\ UNCHANGED <<conn, net, cfg, stmt>>

NextRow ==
  \/ RowNext
  \/ RowScan

SpecRow == InitRow /\ [][NextRow]_vars

\* column i, from 0, of the row the server sent is NULL
SentNull(i) == i \in last.nulls \/ last.columns[i + 1].fieldType = "fieldTypeNULL"

\* C33: for a binary row of n columns, column i is reported NULL exactly
\* when bit i+2 of the NULL bitmap behind the 0x00 header byte is set or its
\* type is NULL, and the values of the other columns are decoded one after
\* the other from the first byte behind the header byte and the bitmap of
\* (n+7+2)/8 bytes.
C33_BinaryRowDecoded ==
  pc = "scanned" =>
    /\ Len(last.dest) = Len(last.columns)
    /\ \A i \in 0..(Len(last.columns) - 1) :
         /\ last.dest[i + 1].null <=> SentNull(i)
         /\ ~SentNull(i) => last.dest[i + 1].v = last.vals[i + 1]


(***************************************************************************)
(* Open failing before the authentication has succeeded.                   *)
(***************************************************************************)
\* the steps of Open up to the answer to the authentication
BeforeAuth == {"readInit", "writeAuth", "authResult", "retryResult"}

\* this step makes Open return an error from before the authentication
FailsBeforeAuth == pc' = "failed" /\ last'.at \in BeforeAuth

\* a COM_QUIT that netConn.Write took
QuitWritten(sent) == \E i \in 1..Len(sent) : sent[i].k = "comQuit" /\ sent[i].ok

\* C34: when Open fails before the authentication has succeeded
\* (readInitPacket, writeAuthPacket or handleAuthResult returns an error, a
\* read failure included), the transport is closed and no COM_QUIT packet has
\* been written to it.
C34_NoQuitBeforeAuth ==
  [][FailsBeforeAuth => ~conn'.netConn /\ ~QuitWritten(net'.sent)]_vars

\* C35: whenever Open returns an error after the transport was dialed, the
\* transport has been closed, and netConn.Close has been called exactly
\* once, on every failure path (keep-alive, handshake read, handshake write,
\* TLS, authentication result, max_allowed_packet query, DSN parameters).
C35_OpenFailureClosesOnce ==
  (pc = "failed" /\ last.at # "dial") => ~conn.netConn /\ net.closes = 1

\* the max_allowed_packet query fails on a read: readPacket has called
\* Close, and Open calls Close again
C35_Witness ==
  /\ pc = "failed" /\ last.at = "maxap" /\ last.struck = "ioerr"
  /\ ~conn.netConn /\ net.closes = 1

\* C36: after an I/O failure has torn the connection down (netConn nil), no
\* later step of the operation in progress writes a packet on it: no step of
\* Open that starts on a connection without transport runs into
\* netConn.Write, and the charset loop of handleParams does not try the next
\* charset once the SET NAMES before it has closed the connection.
C36_NoWriteAfterTeardown == [][~conn.netConn => pc' # "panic"]_vars

(***************************************************************************)
(* The row set of a statement that returned no result set.                 *)
(***************************************************************************)
\* Stmt.Query has returned the row set of an answer that was an OK packet
StmtQueryGotOK ==
  /\ last.op = "StmtQuery" /\ last.err = "nil"
  /\ last.got # <<>> /\ IsOK(last.got[1])

\* C37: when an OK packet answers the COM_STMT_EXECUTE of Stmt.Query, Next on
\* the returned row set reports no row and its Close returns nil, neither
\* reading a packet from the transport nor touching the connection, as Next
\* and Close do on the row set Conn.Query returns for an OK answer.
C37_StmtQueryOKRowsEmpty ==
  [][StmtQueryGotOK /\ last'.op \in {"Next", "RowsClose"}
       => /\ pc' = "ready" /\ ~last'.ok /\ last'.err = "nil"
          /\ last'.got = <<>> /\ last'.struck = "none"
          /\ net'.inq = net.inq /\ conn' = conn]_vars

(***************************************************************************)
(* The end of a result set: the caller holds the row set of a result set   *)
(* whose rows and end packet are on the transport, and calls Next and      *)
(* Close on it.  A text row whose first value is 2^24 bytes or longer      *)
(* starts with the length prefix 0xfe: "rowFE".                            *)
(***************************************************************************)
\* the rows the server sends, m of them, and the packet that ends them
RECURSIVE RowStreams(_, _)
RowStreams(rks, m) ==
  IF m = 0 THEN {<<>>}
  ELSE {<<[k |-> rk]>> \o t : rk \in rks, t \in RowStreams(rks, m - 1)}

DrainStreams(kind) ==
  {t \o <<[k |-> end]>> :
     t \in UNION {RowStreams(IF kind = "text" THEN {"row", "rowFE"} ELSE {"brow"}, m)
                    : m \in 0..MaxRows},
     end \in {"eof", "err"}}

InitDrain ==
  /\ pc = "ready"
  /\ cfg \in {c \in Configs : c.Params = <<>> /\ ~c.TLS /\ ~c.AllowOldPasswords
                               /\ ~c.AllowCleartextPasswords}
  /\ conn = [netConn |-> TRUE, cfgNil |-> FALSE, sequence |-> 5,
             maxPacketAllowed |-> maxPacketSize - 1, strict |-> cfg.Strict,
             tls |-> FALSE, flags |-> {"clientProtocol41", "clientSSL"},
             param |-> 0, charset |-> 0,
             affectedRows |-> 0, insertID |-> 0, status |-> {}]
  /\ \E kind \in {"text", "binary"} :
       /\ rows = newRows(kind)
       /\ \E t \in DrainStreams(kind) :
            net = [inq |-> Seqd(t, conn.sequence), busy |-> FALSE,
                   sent |-> <<>>, closes |-> 0, retries |-> 0]
  /\ stmt = NoStmt
  /\ last = [NoLast EXCEPT !.op = IF rows.kind = "text" THEN "Query"
                                  ELSE "StmtQuery"]
  /\ calls = 0

NextDrain ==
  \/ CallNext
  \/ CallRowsClose

SpecDrain == InitDrain /\ [][NextDrain]_vars

\* Next called on the row set until it has released the connection, the
\* transport delivering what the server sent
RECURSIVE NextToTheEnd(_, _)
NextToTheEnd(w, rs) ==
  Bind(rowsNext(w, rs), LAMBDA r :
       IF r.fatal # "nil" \/ ~r.rows.conn \/ ~r.w.c.netConn THEN r
       ELSE NextToTheEnd(r.w, r.rows))

\* C38: Close and Next agree on where a result set ends: Close of a row set
\* that holds the connection, the transport delivering the packets, returns
\* having consumed the packets up to and including the one at which Next
\* reports the end of the rows (the EOF packet of length 5 or an ERR
\* packet): it neither stops at a row whose first byte is 0xfe nor reads on
\* behind an ERR packet that ends the rows.
C38_CloseEndsWhereNextEnds ==
  [][(last'.op = "RowsClose" /\ rows.conn /\ conn.netConn
        /\ last'.struck = "none")
       => /\ pc' = "ready"
          /\ net'.inq = NextToTheEnd(World(Env0), rows).w.n.inq]_vars

\* C39: writeCommandLongData terminates for every non-empty argument and
\* every maximum packet size of the connection: every chunk it sends carries
\* at least one further byte of the argument, so Stmt.Exec and Stmt.Query
\* never stay in its loop.
C39_LongDataTerminates ==
  last.op \in {"StmtExec", "StmtQuery"} => pc # "diverges"

(***************************************************************************)
(* Reading a result set to its end: the server has sent the rows and the   *)
(* EOF packet behind them, the transport delivers them, and the caller     *)
(* calls Next until it returns false (pc = "done"); after that it calls    *)
(* Next and Close again and sends further commands.                        *)
(***************************************************************************)
LiveStreams(kind) ==
  {t \in DrainStreams(kind) : t[Len(t)].k = "eof"}

InitLive ==
  /\ pc = "ready"
  /\ cfg \in {c \in Configs : c.Params = <<>> /\ ~c.TLS /\ ~c.AllowOldPasswords
                               /\ ~c.AllowCleartextPasswords}
  /\ \E seq \in {3, 5} :
       /\ conn = [netConn |-> TRUE, cfgNil |-> FALSE, sequence |-> seq,
                  maxPacketAllowed |-> maxPacketSize - 1, strict |-> cfg.Strict,
                  tls |-> FALSE, flags |-> {"clientProtocol41", "clientSSL"},
                  param |-> 0, charset |-> 0,
                  affectedRows |-> 0, insertID |-> 0, status |-> {}]
       /\ \E kind \in {"text", "binary"} :
            /\ rows = newRows(kind)
            /\ \E t \in LiveStreams(kind) :
                 net = [inq |-> Seqd(t, seq), busy |-> FALSE,
                        sent |-> <<>>, closes |-> 0, retries |-> 0]
  /\ stmt = NoStmt
  /\ last = [NoLast EXCEPT !.op = IF rows.kind = "text" THEN "Query"
                                  ELSE "StmtQuery"]
  /\ calls = 0

\* a call of the caller returns; at says where the caller stands after it
LiveReturns(op, w, err, ok, res, at) ==
  /\ pc' = IF err \in Fatal THEN err ELSE at
  /\ conn' = w.c
  /\ net' = w.n
  /\ last' = [op |-> op, err |-> err, ok |-> ok, at |-> "none",
              struck |-> w.e.struck, got |-> First(w.e.got), res |-> res]
  /\ UNCHANGED <<cfg, stmt>>

\* for rows.Next() { }
LiveNext ==
  /\ pc = "ready"
  /\ \E ra \in BOOLEAN :
       \E r \in {rowsNext(World([Env0 EXCEPT !.ra = ra]), rows)} :
          /\ LiveReturns("Next", r.w,
                         IF r.fatal # "nil" THEN r.fatal ELSE r.rows.err,
                         r.ok, NoResult, IF r.ok THEN "ready" ELSE "done")
          /\ rows' = r.rows
  /\ UNCHANGED calls

\* Next on the row set that has ended
LiveNextAgain ==
  /\ pc = "done" /\ calls < MaxLiveCalls
  /\ \E r \in {rowsNext(World(Env0), rows)} :
       /\ LiveReturns("Next", r.w,
                      IF r.fatal # "nil" THEN r.fatal ELSE r.rows.err,
                      r.ok, NoResult, "done")
       /\ rows' = r.rows
  /\ calls' = calls + 1

\* Close on the row set that has ended
LiveRowsClose ==
  /\ pc = "done" /\ calls < MaxLiveCalls
  /\ \E r \in {rowsClose(World(Env0), rows)} :
       /\ LiveReturns("RowsClose", r.w, r.err, FALSE, NoResult, "done")
       /\ rows' = r.rows
  /\ calls' = calls + 1

\* the next command on the connection, the server answering it
LiveExec ==
  /\ pc = "done" /\ calls < MaxLiveCalls
  /\ \E a \in NoResultSet, ra \in BOOLEAN :
       \E r \in {Exec(World([Env0 EXCEPT !.resp = <<a>>, !.ra = ra]),
                      PlainQuery(1))} :
          LiveReturns("Exec", r.w, r.err, FALSE, r.res, "done")
  /\ calls' = calls + 1
  /\ UNCHANGED rows

NextLive ==
  \/ LiveNext
  \/ LiveNextAgain
  \/ LiveRowsClose
  \/ LiveExec

\* the caller goes on calling Next as long as it returns true
SpecLive == InitLive /\ [][NextLive]_vars /\ WF_vars(LiveNext)

\* C40: the server having sent finitely many rows and the EOF packet behind
\* them, and the transport staying healthy, repeated calls of Next eventually
\* return false; from then on the row set has released the connection, Next
\* and Close on it read nothing, and the answer to the next command is read
\* in sync.
C40_RowsEndAndRelease ==
  /\ <>(pc = "done")
  /\ [](pc = "done" => ~rows.conn /\ conn.netConn /\ net.inq = <<>>)
  /\ [][pc = "done" /\ last'.op \in {"Next", "RowsClose"}
          => /\ pc' = "done" /\ ~last'.ok
             /\ last'.got = <<>> /\ net'.inq = net.inq /\ conn' = conn]_vars
  /\ [][pc = "done" /\ last'.op = "Exec"
          => /\ pc' = "done" /\ last'.err \notin SyncErrs
             /\ net'.sent # <<>> /\ net'.sent[1].seq = 0
             /\ last'.got # <<>> /\ last'.got[1].seq = 1]_vars

\* the rows read to the end, the row set closed, and a command answered
C40_Witness ==
  /\ pc = "done" /\ calls = MaxLiveCalls
  /\ last.op = "Exec" /\ last.err = "nil" /\ last.got # <<>>
  /\ ~rows.conn /\ conn.netConn /\ net.inq = <<>>
====
